---- MODULE Spec2Model ----
(***************************************************************************)
(* A model of the content-generation orchestration core of                 *)
(* AI-ContentGen-Pro: the orchestrator (ContentGenerator), its result      *)
(* cache (LRUCache), the remote model client (OpenAIManager) and the part  *)
(* of the template store (PromptEngine / PromptTemplate) that generate     *)
(* reads.                                                                  *)
(*                                                                         *)
(* Conventions                                                             *)
(*  - a Python dict is a TLA+ function with a string domain; a key that    *)
(*    the code never assigns is absent from the domain;                    *)
(*  - a message built by an f-string is the sequence of its parts;         *)
(*  - uuid4 request ids are fresh naturals drawn from a counter;           *)
(*  - dict objects that the code shares by reference live in `heap` and    *)
(*    are named by their index, so that a write through one reference is   *)
(*    seen through every other one;                                        *)
(*  - money is counted in micro-dollars (6 decimals), time in seconds.     *)
(* The write-only counters _cache_checks and _cache_hits of the            *)
(* orchestrator are read nowhere in the repository and are not modelled.   *)
(***************************************************************************)
EXTENDS Integers, Sequences, FiniteSets, TLC

VARIABLES
    now,          \* the wall clock, in seconds
    nextId,       \* source of fresh uuid4 request ids (utils.generate_request_id)
    heap,         \* dict objects created by generate, by reference
    history,      \* ContentGenerator._history
    appended,     \* every entry given to _add_to_history since the last clear_history (observation only)
    stored,       \* successful generations since construction, with whether clear_cache came after (observation only)
    cache,        \* LRUCache._cache, oldest first (OrderedDict order)
    cacheStats,   \* LRUCache._hits and LRUCache._misses
    recency,      \* keys held by the cache, by their last set or successful get, oldest first (observation only)
    totalCost,    \* ContentGenerator._total_cost
    callbacks,    \* ContentGenerator._callbacks
    hasManager,   \* ContentGenerator.api_manager is not None
    client,       \* OpenAIManager: _cache, _stats, _request_counter
    netCalls,     \* requests that reached the provider (chat.completions.create)
    returned,     \* references to the records handed back to callers, in order
    templates,    \* PromptEngine._templates
    engine,       \* PromptEngine._active_templates and the lru_cache of _get_template_cached
    last,         \* what the most recent operation did (observation only)
    threads,      \* generate calls in progress on worker threads
    batch         \* the generate_batch call in progress, if any

vars == <<now, nextId, heap, history, appended, stored, cache, cacheStats, recency, totalCost,
          callbacks,
          hasManager, client, netCalls, returned, templates, engine, last, threads, batch>>

-----------------------------------------------------------------------------
(* Program constants *)

MAX_HISTORY_SIZE == 1000
MAX_CACHE_SIZE == 100
CACHE_TTL_SECONDS == 3600
DEFAULT_RETRY_ATTEMPTS == 1
CLIENT_CACHE_TTL_SECONDS == 3600
MAX_RETRY_ATTEMPTS == 3
MAX_WORKERS == 3
MAX_CONCURRENT_REQUESTS == 3

(* Bounds of the model *)

MaxCalls == 3          \* generate calls in one behaviour
TickSeconds == 3600    \* the clock advances in steps of this many seconds
MaxTicks == 2          \* number of clock steps in one behaviour
MaxCallbacks == 2      \* length of the callback list
MaxBatch == 2          \* entries of one generate_batch call
MaxVariations == 2     \* count of one generate_multiple_variations call
MaxAttempts == 1003    \* generate calls in one behaviour that fills the history

-----------------------------------------------------------------------------
(* Small helpers *)

Put(d, k, v) == (k :> v) @@ d

Has(d, k) == k \in DOMAIN d

SeqSum(s, F(_)) ==
    LET RECURSIVE Go(_)
        Go(i) == IF i = 0 THEN 0 ELSE F(s[i]) + Go(i - 1)
    IN Go(Len(s))

Range(s) == {s[i] : i \in DOMAIN s}

DropFirst(s) == SubSeq(s, 2, Len(s))

-----------------------------------------------------------------------------
(* Strings.  The text values of the model, with the properties the code    *)
(* reads off them by len(), str.strip() and its regular expressions.       *)

LONG_5001 == "<a string of 5001 characters>"
LONG_10001 == "<a string of 10001 characters>"
LONG_NAME_101 == "<a name of 101 characters>"

MAX_STRING_LENGTH == 10000
MAX_VARIABLE_LENGTH == 5000

StrLen(s) ==
    CASE s = LONG_5001 -> 5001
      [] s = LONG_10001 -> 10001
      [] s = LONG_NAME_101 -> 101
      [] OTHER -> Len(s)

\* str.strip() == "" : empty or whitespace only
IsBlank(s) == s \in {"", " ", "   "}

\* re.match(TEMPLATE_NAME_PATTERN, name), TEMPLATE_NAME_PATTERN = ^[a-zA-Z0-9_]+$
MatchesNamePattern(name) == name \notin {"", "bad-name", "no such"}

\* any(re.search(p, v, re.IGNORECASE) for p in SQL_INJECTION_PATTERNS)
MatchesSqlInjection(s) == s \in {"x; DROP TABLE users", "1 UNION SELECT 1"}

\* any(p.search(v) for p in DANGEROUS_PATTERNS) of the template sanitizer
MatchesDangerous(s) ==
    s \in {"x; DROP TABLE users", "javascript:alert(1)", "<script>alert(1)</script>"}

-----------------------------------------------------------------------------
(* utils.validate_input: (is_valid, error_message).  Every value of the    *)
(* model is a str, so of the per-type branches the str one is taken.  The  *)
(* message names the first offending variable met.                         *)

BadValueMessage(k, v) ==
    IF IsBlank(v) THEN <<"Variable '", k, "' cannot be empty or whitespace-only">>
    ELSE IF StrLen(v) > MAX_STRING_LENGTH
         THEN <<"Variable '", k, "' exceeds maximum length of 10000 characters (got ",
                ToString(StrLen(v)), ")">>
    ELSE IF MatchesSqlInjection(v)
         THEN <<"Variable '", k, "' contains potential SQL injection pattern">>
    ELSE <<>>

validate_input(template_name, variables) ==
    IF template_name = ""
    THEN [is_valid |-> FALSE, error_msg |-> <<"Template name cannot be empty">>]
    ELSE IF ~MatchesNamePattern(template_name)
    THEN [is_valid |-> FALSE,
          error_msg |-> <<"Template name must contain only alphanumeric characters and underscores (a-z, A-Z, 0-9, _)">>]
    ELSE IF "" \in DOMAIN variables
    THEN [is_valid |-> FALSE, error_msg |-> <<"Variable name cannot be empty">>]
    ELSE LET bad == {k \in DOMAIN variables : BadValueMessage(k, variables[k]) # <<>>}
         IN IF bad = {}
            THEN [is_valid |-> TRUE, error_msg |-> <<>>]
            ELSE LET k == CHOOSE x \in bad : TRUE
                 IN [is_valid |-> FALSE, error_msg |-> BadValueMessage(k, variables[k])]

-----------------------------------------------------------------------------
(* Templates.  A template string is the sequence of its literal parts and  *)
(* {placeholders}; temperatures are in hundredths.                         *)

Lit(s) == [lit |-> s, var |-> ""]
Var(v) == [lit |-> "", var |-> v]

MetaDescription ==
    [name |-> "meta_description",
     template |-> <<Lit("Write an SEO-optimized meta description for a page about "),
                    Var("topic"), Lit(". Primary keyword: "), Var("keyword"),
                    Lit(". Include a call-to-action. Must be 150-160 characters and compelling for search results.")>>,
     system_instructions |-> "You are an SEO specialist",
     default_tone |-> "professional",
     required_variables |-> <<"topic", "keyword">>,
     optional_variables |-> <<>>,
     max_tokens_recommendation |-> 100,
     temperature_recommendation |-> 50,
     enabled |-> TRUE]

ProductDescription ==
    [name |-> "product_description",
     template |-> <<Lit("Write a "), Var("tone"), Lit(" product description for "),
                    Var("product_name"), Lit(". Key features: "), Var("features"),
                    Lit(". Target audience: "), Var("audience"), Lit(". Length: "),
                    Var("length"), Lit(" words. Include a compelling call-to-action.")>>,
     system_instructions |-> "You are an expert e-commerce copywriter",
     default_tone |-> "persuasive",
     required_variables |-> <<"product_name", "features", "audience">>,
     optional_variables |-> [tone |-> "persuasive", length |-> "100"],
     max_tokens_recommendation |-> 300,
     temperature_recommendation |-> 70,
     enabled |-> TRUE]

\* PromptEngine._templates after load_templates(): two of the ten built-in
\* templates; the other eight have the same shape.
BuiltinTemplates ==
    [n \in {"meta_description", "product_description"} |->
        IF n = "meta_description" THEN MetaDescription ELSE ProductDescription]

\* a check that stops at the first missing variable
MissingFirst(tpl, variables) ==
    LET all == SelectSeq(tpl.required_variables, LAMBDA v : ~Has(variables, v))
    IN IF all = <<>> THEN <<>> ELSE <<all[1]>>

\* PromptTemplate.validate_variables: the missing required variables, in
\* declaration order
MissingVariables(tpl, variables) ==
    SelectSeq(tpl.required_variables,
              LAMBDA v : ~Has(variables, v) \/ IsBlank(variables[v]))

\* PromptTemplate._sanitize_value raises SanitizationError
SanitizeRejects(v) == StrLen(v) > MAX_VARIABLE_LENGTH \/ MatchesDangerous(v)

SanitizeMessage(v) ==
    IF StrLen(v) > MAX_VARIABLE_LENGTH
    THEN <<"Variable value exceeds maximum length of 5000">>
    ELSE <<"Input contains potentially malicious content">>

\* merged_vars of PromptTemplate.generate: optional defaults, the tone
\* default, then the caller's values (escaping and unescaping braces is the
\* identity on a value)
MergedVars(tpl, variables) ==
    LET withTone == IF ~Has(tpl.optional_variables, "tone") /\ ~Has(variables, "tone")
                    THEN Put(tpl.optional_variables, "tone", tpl.default_tone)
                    ELSE tpl.optional_variables
    IN variables @@ withTone

\* str.format(**final_vars) on the template string
Format(template, final_vars) ==
    [i \in DOMAIN template |->
        IF template[i].var = "" THEN template[i].lit ELSE final_vars[template[i].var]]

Placeholders(template) == {template[i].var : i \in DOMAIN template} \ {""}

\* PromptTemplate.generate(variables, include_system): the prompt, or the
\* exception it raises
TemplateGenerate(tpl, variables, include_system) ==
    LET missing == MissingVariables(tpl, variables)
        rejected == {k \in DOMAIN variables : SanitizeRejects(variables[k])}
        final_vars == MergedVars(tpl, variables)
        unresolved == Placeholders(tpl.template) \ DOMAIN final_vars
    IN IF missing # <<>>
       THEN [raised |-> "VariableValidationError",
             message |-> <<"Missing required variables for template '", tpl.name, "': ">> \o missing,
             prompt |-> <<>>]
       ELSE IF rejected # {}
       THEN [raised |-> "SanitizationError",
             message |-> SanitizeMessage(variables[CHOOSE k \in rejected : TRUE]),
             prompt |-> <<>>]
       ELSE IF unresolved # {}
       THEN [raised |-> "VariableValidationError",
             message |-> <<"Template variable '", CHOOSE k \in unresolved : TRUE,
                           "' not provided and has no default">>,
             prompt |-> <<>>]
       ELSE [raised |-> "",
             message |-> <<>>,
             prompt |-> IF include_system /\ tpl.system_instructions # ""
                        THEN <<"[System: ", tpl.system_instructions, "]\n\n">>
                                 \o Format(tpl.template, final_vars)
                        ELSE Format(tpl.template, final_vars)]

-----------------------------------------------------------------------------
(* PromptEngine (prompt_engine.py): the template store.  A template is the *)
(* record of the fields of PromptTemplate that the program reads; the      *)
(* lru_cache of _get_template_cached holds up to 128 names, more than the  *)
(* store ever has here, so it never evicts by itself.                      *)

MAX_TEMPLATE_LENGTH == 10000
MAX_NAME_LENGTH == 100

\* len() of one part of a template string; a placeholder is written {var}
PartLength(p) == IF p.var = "" THEN StrLen(p.lit) ELSE StrLen(p.var) + 2

BodyLength(template) == SeqSum(template, PartLength)

\* PromptTemplate._validate_template, run by __post_init__: the text of the
\* TemplateValidationError it raises, <<>> when it returns
ValidationText(t) ==
    IF t.name = ""
    THEN <<"Template name must be a non-empty string">>
    ELSE IF StrLen(t.name) > MAX_NAME_LENGTH
    THEN <<"Template name exceeds maximum length of 100">>
    ELSE IF BodyLength(t.template) = 0
    THEN <<"Template must be a non-empty string">>
    ELSE IF BodyLength(t.template) > MAX_TEMPLATE_LENGTH
    THEN <<"Template exceeds maximum length of 10000">>
    ELSE IF ~(0 <= t.temperature_recommendation /\ t.temperature_recommendation <= 200)
    THEN <<"Temperature must be between 0.0 and 2.0, got ",
           ToString(t.temperature_recommendation)>>
    ELSE IF t.max_tokens_recommendation < 1
    THEN <<"max_tokens_recommendation must be at least 1">>
    ELSE <<>>

\* PromptTemplate.to_dict: the fields as they are at the time of the call
to_dict(t) ==
    [name |-> t.name, template |-> t.template,
     system_instructions |-> t.system_instructions,
     default_tone |-> t.default_tone,
     required_variables |-> t.required_variables,
     optional_variables |-> t.optional_variables,
     max_tokens_recommendation |-> t.max_tokens_recommendation,
     temperature_recommendation |-> t.temperature_recommendation,
     enabled |-> t.enabled]

\* PromptTemplate.from_dict: a new template, validated by __post_init__
from_dict(data) ==
    [raised |-> IF ValidationText(data) = <<>> THEN "" ELSE "TemplateValidationError",
     message |-> ValidationText(data),
     tpl |-> to_dict(data)]

\* PromptTemplate.clone(new_name)
TemplateClone(t, new_name) == from_dict([to_dict(t) EXCEPT !.name = new_name])

\* PromptEngine.get_template(name): the template returned or the exception
\* raised, and the lookup cache afterwards.  (The count of the lookup in
\* _usage_stats is not part of the state here.)
GetTemplate(tpls, eng, name) ==
    IF name \notin DOMAIN tpls
    THEN [raised |-> "TemplateNotFoundError",
          message |-> <<"Template '", name, "' not found">>,
          tpl |-> <<>>, engine |-> eng]
    ELSE LET cached == IF name \in DOMAIN eng.cached
                       THEN eng.cached[name]
                       ELSE to_dict(tpls[name])
             made == from_dict(cached)
         IN [raised |-> made.raised, message |-> made.message, tpl |-> made.tpl,
             engine |-> [eng EXCEPT !.cached = Put(@, name, cached)]]

\* PromptEngine.register_template(template)
RegisterTemplate(tpls, eng, template) ==
    [templates |-> Put(tpls, template.name, template),
     engine |-> [active |-> IF template.enabled
                            THEN eng.active \cup {template.name}
                            ELSE eng.active \ {template.name},
                 cached |-> <<>>]]

\* a removal that forgets the name but keeps it active
RemoveKeepsActive(tpls, eng, name) ==
    IF name \notin DOMAIN tpls
    THEN [templates |-> tpls, engine |-> eng, removed |-> FALSE]
    ELSE [templates |-> [n \in DOMAIN tpls \ {name} |-> tpls[n]],
          engine |-> [active |-> eng.active, cached |-> <<>>],
          removed |-> TRUE]

\* PromptEngine.remove_template(name)
RemoveTemplate(tpls, eng, name) ==
    IF name \notin DOMAIN tpls
    THEN [templates |-> tpls, engine |-> eng, removed |-> FALSE]
    ELSE [templates |-> [n \in DOMAIN tpls \ {name} |-> tpls[n]],
          engine |-> [active |-> eng.active \ {name}, cached |-> <<>>],
          removed |-> TRUE]

\* setattr(cloned, key, value) for every key of updates that is an
\* attribute of the template
ApplyUpdates(cloned, updates) ==
    [k \in DOMAIN cloned |-> IF k \in DOMAIN updates THEN updates[k] ELSE cloned[k]]

\* PromptEngine.clone_template(name, new_name, updates)
CloneTemplate(tpls, eng, name, new_name, updates) ==
    IF name \notin DOMAIN tpls
    THEN [templates |-> tpls, engine |-> eng, raised |-> "TemplateNotFoundError",
          cloned |-> <<>>]
    ELSE IF new_name \in DOMAIN tpls
    THEN [templates |-> tpls, engine |-> eng, raised |-> "TemplateValidationError",
          cloned |-> <<>>]
    ELSE LET made == TemplateClone(tpls[name], new_name)
             cloned == ApplyUpdates(made.tpl, updates)
         IN IF made.raised # ""
            THEN [templates |-> tpls, engine |-> eng, raised |-> made.raised,
                  cloned |-> <<>>]
            ELSE [templates |-> Put(tpls, new_name, cloned),
                  engine |-> [eng EXCEPT !.active = IF cloned.enabled
                                                    THEN @ \cup {new_name} ELSE @],
                  raised |-> "", cloned |-> cloned]

\* PromptEngine.enable_template(name): neither this nor disable_template
\* calls cache_clear
EnableTemplate(tpls, eng, name) ==
    IF name \notin DOMAIN tpls
    THEN [templates |-> tpls, engine |-> eng, done |-> FALSE]
    ELSE [templates |-> [tpls EXCEPT ![name].enabled = TRUE],
          engine |-> [eng EXCEPT !.active = @ \cup {name}],
          done |-> TRUE]

\* a disable_template that leaves the name in the active set
DisableKeepsActive(tpls, eng, name) ==
    IF name \notin DOMAIN tpls
    THEN [templates |-> tpls, engine |-> eng, done |-> FALSE]
    ELSE [templates |-> [tpls EXCEPT ![name].enabled = FALSE],
          engine |-> eng,
          done |-> TRUE]

\* PromptEngine.disable_template(name)
DisableTemplate(tpls, eng, name) ==
    IF name \notin DOMAIN tpls
    THEN [templates |-> tpls, engine |-> eng, done |-> FALSE]
    ELSE [templates |-> [tpls EXCEPT ![name].enabled = FALSE],
          engine |-> [eng EXCEPT !.active = @ \ {name}],
          done |-> TRUE]

\* PromptEngine.load_templates(): every built-in template is stored under
\* its name, over whatever was there, and added to the active set if it is
\* enabled; the lookup cache is left as it is
LoadTemplates(tpls, eng) ==
    [templates |-> [n \in DOMAIN tpls \cup DOMAIN BuiltinTemplates |->
                       IF n \in DOMAIN BuiltinTemplates THEN BuiltinTemplates[n]
                       ELSE tpls[n]],
     engine |-> [eng EXCEPT !.active =
                    @ \cup {n \in DOMAIN BuiltinTemplates : BuiltinTemplates[n].enabled}]]

-----------------------------------------------------------------------------
(* LRUCache (content_generator.py).  An entry's data is a reference to the *)
(* dict that set() was given; None is reference 0.                         *)

None == 0

LRUIndex(c, key) ==
    IF \E i \in DOMAIN c : c[i].key = key
    THEN CHOOSE i \in DOMAIN c : c[i].key = key
    ELSE 0

RemoveAt(c, i) == SubSeq(c, 1, i - 1) \o SubSeq(c, i + 1, Len(c))

\* a TTL test that already fails at the expiry instant
LRUExpiredAtExpiry(entry, t) == t >= entry.expires_at

\* the TTL test of LRUCache.get
LRUExpired(entry, t) == t > entry.expires_at

\* a get that answers None for an expired entry but leaves it in the cache
LRUGetKeepsExpired(c, stats, key, t) ==
    LET i == LRUIndex(c, key)
    IN IF i = 0 \/ LRUExpired(c[i], t)
       THEN [cache |-> c, stats |-> [stats EXCEPT !.misses = @ + 1], data |-> None]
       ELSE [cache |-> Append(RemoveAt(c, i), c[i]),
             stats |-> [stats EXCEPT !.hits = @ + 1],
             data |-> c[i].data]

\* LRUCache.get: the cache, the counters and the value returned
LRUGet(c, stats, key, t) ==
    LET i == LRUIndex(c, key)
    IN IF i = 0
       THEN [cache |-> c, stats |-> [stats EXCEPT !.misses = @ + 1], data |-> None]
       ELSE IF LRUExpired(c[i], t)
       THEN [cache |-> RemoveAt(c, i),
             stats |-> [stats EXCEPT !.misses = @ + 1],
             data |-> None]
       ELSE [cache |-> Append(RemoveAt(c, i), c[i]),
             stats |-> [stats EXCEPT !.hits = @ + 1],
             data |-> c[i].data]

\* a set that never evicts
EvictNothing(c, max_size) == c

\* the eviction loop of LRUCache.set: popitem(last=False) while at capacity
RECURSIVE EvictToFit(_, _)
EvictToFit(c, max_size) ==
    IF Len(c) >= max_size /\ Len(c) > 0
    THEN EvictToFit(DropFirst(c), max_size)
    ELSE c

\* a set that overwrites an existing key where it stands
LRUSetInPlace(c, max_size, ttl_seconds, key, data, t) ==
    LET i == LRUIndex(c, key)
        entry == [key |-> key, data |-> data,
                  expires_at |-> t + ttl_seconds, created_at |-> t]
    IN IF i = 0
       THEN Append(EvictToFit(c, max_size), entry)
       ELSE [c EXCEPT ![i] = entry]

\* LRUCache.set
LRUSet(c, max_size, ttl_seconds, key, data, t) ==
    LET i == LRUIndex(c, key)
        removed == IF i = 0 THEN c ELSE RemoveAt(c, i)
    IN Append(EvictToFit(removed, max_size),
              [key |-> key, data |-> data,
               expires_at |-> t + ttl_seconds, created_at |-> t])

\* The keys by their last use, after an operation on key that left the
\* cache as c: touched says that the operation was a set or a successful get
Recency(rec, key, touched, c) ==
    LET used == IF touched
                THEN Append(SelectSeq(rec, LAMBDA k : k # key), key)
                ELSE rec
        held == {c[i].key : i \in DOMAIN c}
    IN SelectSeq(used, LAMBDA k : k \in held)

\* LRUCache.hit_rate, in percent (a rational: numerator and denominator)
HitRate(stats) ==
    IF stats.hits + stats.misses > 0
    THEN [num |-> stats.hits * 100, den |-> stats.hits + stats.misses]
    ELSE [num |-> 0, den |-> 1]

-----------------------------------------------------------------------------
(* ContentGenerator._add_to_history: append a copy, then pop(0) while the  *)
(* list is longer than MAX_HISTORY_SIZE.                                   *)

\* a trim that drops the newest entries instead of the oldest
TrimNewest(h) ==
    IF Len(h) > MAX_HISTORY_SIZE THEN SubSeq(h, 1, MAX_HISTORY_SIZE) ELSE h

RECURSIVE TrimHistory(_)
TrimHistory(h) ==
    IF Len(h) > MAX_HISTORY_SIZE THEN TrimHistory(DropFirst(h)) ELSE h

AddToHistory(h, result) == TrimHistory(Append(h, result))

\* ContentGenerator._generate_cache_key: md5 of "name:json", json being
\* json.dumps(variables, sort_keys=True): the items in key order.  The
\* digest is taken to be injective.
VarNamesSorted ==
    <<"_total_variations", "_variation_number", "audience", "features",
      "keyword", "length", "product_name", "tone", "topic">>

JsonDumpsSorted(variables) ==
    LET present == SelectSeq(VarNamesSorted, LAMBDA k : Has(variables, k))
    IN [i \in DOMAIN present |-> <<present[i], variables[present[i]]>>]

GenerateCacheKey(template_name, variables) ==
    <<template_name, ":", JsonDumpsSorted(variables)>>

-----------------------------------------------------------------------------
(* The remote model client, OpenAIManager (api_manager.py).                *)

BASE_RETRY_DELAY == 2
RETRY_BACKOFF_MULTIPLIER == 2
DEFAULT_MODEL == "gpt-3.5-turbo"
DEFAULT_CLIENT_MAX_TOKENS == 2000
DEFAULT_CLIENT_TEMPERATURE == 70

\* config.MODEL_COSTS, in micro-dollars per 1000 tokens
MODEL_COSTS ==
    [m \in {"gpt-4", "gpt-4-turbo", "gpt-3.5-turbo", "gpt-3.5-turbo-16k"} |->
        CASE m = "gpt-4" -> [input |-> 30000, output |-> 60000]
          [] m = "gpt-4-turbo" -> [input |-> 10000, output |-> 30000]
          [] m = "gpt-3.5-turbo" -> [input |-> 500, output |-> 1500]
          [] OTHER -> [input |-> 3000, output |-> 4000]]

\* round(x, 6) of x = n/d micro-dollars.  On an exact tie the float that
\* Python rounds lies just above or just below it: tie_up says which.
Round6(n, d, tie_up) ==
    LET q == n \div d
        r == n % d
    IN IF 2 * r < d THEN q
       ELSE IF 2 * r > d THEN q + 1
       ELSE IF tie_up THEN q + 1 ELSE q

\* OpenAIManager._calculate_cost
CalculateCost(model, prompt_tokens, completion_tokens, tie_up) ==
    IF model \notin DOMAIN MODEL_COSTS
    THEN 0
    ELSE Round6(prompt_tokens * MODEL_COSTS[model].input
                  + completion_tokens * MODEL_COSTS[model].output, 1000, tie_up)

\* What the provider answers to one request: kind is "ok" or the exception
\* that chat.completions.create raises.
Outcome(kind, content, prompt_tokens, completion_tokens, tie_up) ==
    [kind |-> kind, content |-> content, prompt_tokens |-> prompt_tokens,
     completion_tokens |-> completion_tokens,
     total_tokens |-> prompt_tokens + completion_tokens, tie_up |-> tie_up]

Failure(kind) == Outcome(kind, "", 0, 0, FALSE)

\* retryable_exceptions of the decorator on _make_api_call
RetryableKinds == {"RateLimitError", "APIConnectionError"}

\* the exception _make_api_call lets out for one failed request
MakeApiCallRaises(kind) ==
    CASE kind = "AuthenticationError" -> "APIKeyInvalidError"
      [] kind = "RateLimitError" -> "RateLimitError"
      [] kind = "APIConnectionError" -> "APIConnectionError"
      \* the request timeout of the openai client (setup.py: openai>=1.12.0)
      \* raises APITimeoutError, a subclass of APIConnectionError: the clause
      \* "except APIConnectionError: raise" lets it out as it is, and the
      \* decorator's isinstance checks take it for a connection error
      [] kind = "APITimeoutError" -> "APIConnectionError"
      [] kind = "OpenAIAPIError" -> "APIServerError"
      [] kind = "timeout" -> "RequestTimeoutError"
      [] OTHER -> "Exception"

\* a retry loop that also sleeps after its last attempt
RECURSIVE RetryWithBackoffSleepsLast(_, _, _, _)
RetryWithBackoffSleepsLast(outs, attempt, delay, sleeps) ==
    LET o == outs[attempt]
        raised == MakeApiCallRaises(o.kind)
    IN IF o.kind = "ok"
       THEN [attempts |-> attempt, sleeps |-> sleeps, raised |-> "", response |-> o]
       ELSE IF raised \in RetryableKinds
       THEN IF attempt < MAX_RETRY_ATTEMPTS
            THEN RetryWithBackoffSleepsLast(outs, attempt + 1,
                                            delay * RETRY_BACKOFF_MULTIPLIER,
                                            Append(sleeps, delay))
            ELSE [attempts |-> attempt, sleeps |-> Append(sleeps, delay),
                  raised |-> IF raised = "RateLimitError"
                             THEN "RateLimitExceeded" ELSE "APIConnectionFailed",
                  response |-> o]
       ELSE [attempts |-> attempt, sleeps |-> sleeps, raised |-> raised, response |-> o]

\* retry_with_backoff around _make_api_call: outs[k] answers the k-th
\* request.  Gives the requests made, the sleeps taken, and the response or
\* the exception raised.
RECURSIVE RetryWithBackoff(_, _, _, _)
RetryWithBackoff(outs, attempt, delay, sleeps) ==
    LET o == outs[attempt]
        raised == MakeApiCallRaises(o.kind)
    IN IF o.kind = "ok"
       THEN [attempts |-> attempt, sleeps |-> sleeps, raised |-> "", response |-> o]
       ELSE IF raised \in RetryableKinds
       THEN IF attempt < MAX_RETRY_ATTEMPTS
            THEN RetryWithBackoff(outs, attempt + 1, delay * RETRY_BACKOFF_MULTIPLIER,
                                  Append(sleeps, delay))
            ELSE [attempts |-> attempt, sleeps |-> sleeps,
                  raised |-> IF raised = "RateLimitError"
                             THEN "RateLimitExceeded" ELSE "APIConnectionFailed",
                  response |-> o]
       ELSE [attempts |-> attempt, sleeps |-> sleeps, raised |-> raised, response |-> o]

\* a sequence of answers that RetryWithBackoff consumes exactly
WellFormedRun(outs) ==
    /\ Len(outs) \in 1..MAX_RETRY_ATTEMPTS
    /\ \A k \in 1..(Len(outs) - 1) : outs[k].kind \in RetryableKinds
    /\ Len(outs) < MAX_RETRY_ATTEMPTS => outs[Len(outs)].kind \notin RetryableKinds

\* str(e) of the exception generate_content catches
ExceptionText(raised) ==
    CASE raised = "APIKeyInvalidError" -> <<"Invalid API key: ", "AuthenticationError">>
      [] raised = "RateLimitExceeded" -> <<"Rate limit exceeded after 3 attempts">>
      [] raised = "APIConnectionFailed" -> <<"Connection failed after 3 attempts">>
      [] raised = "APIServerError" -> <<"OpenAI server error: ", "OpenAIAPIError">>
      [] raised = "RequestTimeoutError" -> <<"Request timed out after 30s">>
      [] OTHER -> <<"Unexpected error: ", "Exception">>

ClientKey(prompt, system_message, model) == <<prompt, "|", system_message, "|", model>>

\* an expiry test of the response cache that already fails at the expiry
\* instant
ClientExpiredAtExpiry(entry, t) == t >= entry.created_at + entry.ttl_seconds

\* CacheEntry.is_expired
ClientExpired(entry, t) == t > entry.created_at + entry.ttl_seconds

\* a statistics update that counts only the requests
UpdateStatsRequestsOnly(stats, response) ==
    IF response.success
    THEN [stats EXCEPT !.total_requests = @ + 1, !.successful_requests = @ + 1]
    ELSE [stats EXCEPT !.total_requests = @ + 1, !.failed_requests = @ + 1]

\* OpenAIManager._update_stats
UpdateStats(stats, response) ==
    IF response.success
    THEN [stats EXCEPT !.total_requests = @ + 1,
                       !.successful_requests = @ + 1,
                       !.total_prompt_tokens = @ + response.tokens_used.prompt,
                       !.total_completion_tokens = @ + response.tokens_used.completion,
                       !.total_tokens = @ + response.tokens_used.total,
                       !.total_cost = @ + response.cost]
    ELSE [stats EXCEPT !.total_requests = @ + 1, !.failed_requests = @ + 1]

\* APIResponse(...).to_dict() of a failure
FailedResponse(t, request_id, error) ==
    [success |-> FALSE, content |-> "", model |-> "",
     tokens_used |-> [prompt |-> 0, completion |-> 0, total |-> 0],
     cost |-> 0, timestamp |-> t, request_id |-> request_id,
     finish_reason |-> "", error |-> error]

\* a pre-flight check that rejects the empty prompt only
EmptyPrompt(prompt) == prompt = <<>>

\* not prompt or not prompt.strip(): the prompt is the concatenation of
\* its parts
BlankPrompt(prompt) == \A i \in DOMAIN prompt : IsBlank(prompt[i])

\* OpenAIManager.generate_content.  Gives the client afterwards, the
\* exception raised to the caller ("" when it returns), the dict returned,
\* and the number of requests sent to the provider.
ClientGenerateContent(cl, t, prompt, max_tokens, temperature, system_message, use_cache, outs) ==
    LET request_id == cl.request_counter + 1
        cl1 == [cl EXCEPT !.request_counter = request_id]
        model == cl.model
        mt == IF max_tokens = 0 THEN cl.max_tokens ELSE max_tokens
        temp == IF temperature = 0 THEN cl.temperature ELSE temperature
        key == ClientKey(prompt, system_message, model)
        present == use_cache /\ key \in DOMAIN cl.cache
        hit == present /\ ~ClientExpired(cl.cache[key], t)
        \* _check_cache deletes an expired entry
        cl2 == IF present /\ ~hit
               THEN [cl1 EXCEPT !.cache = [k \in DOMAIN cl.cache \ {key} |-> cl.cache[k]]]
               ELSE cl1
        call == RetryWithBackoff(outs, 1, BASE_RETRY_DELAY, <<>>)
        o == call.response
        ok == [success |-> TRUE, content |-> o.content, model |-> model,
               tokens_used |-> [prompt |-> o.prompt_tokens,
                                completion |-> o.completion_tokens,
                                total |-> o.total_tokens],
               cost |-> CalculateCost(model, o.prompt_tokens, o.completion_tokens, o.tie_up),
               timestamp |-> t, request_id |-> request_id,
               finish_reason |-> "stop", error |-> <<>>]
        failed == FailedResponse(t, request_id, ExceptionText(call.raised))
    IN IF BlankPrompt(prompt)
       THEN [client |-> cl1, raised |-> "InvalidPromptError", result |-> failed,
             net |-> 0, sleeps |-> <<>>, sent |-> [max_tokens |-> 0, temperature |-> 0],
             caught |-> ""]
       ELSE IF hit
       THEN LET refreshed == [cl.cache[key].response EXCEPT !.request_id = request_id,
                                                             !.timestamp = t]
            IN [client |-> [cl1 EXCEPT !.cache[key].response = refreshed],
                raised |-> "", result |-> refreshed,
                net |-> 0, sleeps |-> <<>>, sent |-> [max_tokens |-> 0, temperature |-> 0],
                caught |-> ""]
       ELSE IF call.raised = ""
       THEN [client |-> [cl2 EXCEPT !.stats = UpdateStats(cl2.stats, ok),
                                    !.cache = IF use_cache
                                              THEN Put(cl2.cache, key,
                                                       [response |-> ok, created_at |-> t,
                                                        ttl_seconds |-> CLIENT_CACHE_TTL_SECONDS])
                                              ELSE @],
             raised |-> "", result |-> ok,
             net |-> call.attempts, sleeps |-> call.sleeps,
             sent |-> [max_tokens |-> mt, temperature |-> temp],
             caught |-> ""]
       ELSE [client |-> [cl2 EXCEPT !.stats = UpdateStats(cl2.stats, failed)],
             raised |-> "", result |-> failed,
             net |-> call.attempts, sleeps |-> call.sleeps,
             sent |-> [max_tokens |-> mt, temperature |-> temp],
             \* the exception that generate_content caught
             caught |-> call.raised]

-----------------------------------------------------------------------------
(* ContentGenerator.generate (content_generator.py).  The program state is *)
(* passed around as one record S; a call in progress is a frame f holding  *)
(* its arguments (req), its locals and its position pc.  Each operator     *)
(* below is one stretch of generate between two accesses to shared state   *)
(* that another thread can interleave with.                                *)

\* utils.sanitize_output on the texts the provider returns in this model
sanitize_output(content) ==
    CASE content = "<script>alert(1)</script>Fresh tea daily." -> "Fresh tea daily."
      [] content = "  Fresh   tea daily.  " -> "Fresh tea daily."
      [] OTHER -> content

\* the callbacks whose body raises an exception
RaisingCallbacks == {"cb_raise"}

\* the loop of _invoke_callbacks from position i on: every callback is
\* called; an exception raised by one is caught and logged
RECURSIVE InvokeFrom(_, _, _)
InvokeFrom(cbs, i, invoked) ==
    IF i > Len(cbs)
    THEN [invoked |-> invoked, raised |-> ""]
    ELSE InvokeFrom(cbs, i + 1, Append(invoked, cbs[i]))

\* a dispatch loop without the try/except: the first exception ends it
InvokeCallbacksUncaught(cbs) ==
    LET raising == {i \in DOMAIN cbs : cbs[i] \in RaisingCallbacks}
        first == CHOOSE i \in raising : \A j \in raising : i <= j
    IN IF raising = {}
       THEN [invoked |-> cbs, raised |-> ""]
       ELSE [invoked |-> SubSeq(cbs, 1, first), raised |-> "CallbackError"]

\* ContentGenerator._invoke_callbacks: the callbacks called, in order, and
\* the exception that leaves the method ("" for none)
InvokeCallbacks(cbs) == InvokeFrom(cbs, 1, <<>>)

\* the base result dict built by generate
BaseResult(template_name, merged_variables, timestamp, request_id) ==
    [success |-> FALSE, content |-> "", template_used |-> template_name,
     variables |-> merged_variables, timestamp |-> timestamp,
     request_id |-> request_id, model |-> "",
     tokens_used |-> [prompt |-> 0, completion |-> 0, total |-> 0],
     cost |-> 0, cached |-> FALSE]

\* a failure path that leaves the error message out
WithoutError(result, message) == result

\* result['error'] = message
WithError(result, message) == Put(result, "error", message)

NewFrame(req) ==
    [pc |-> "begin", req |-> req, request_id |-> 0, result |-> <<>>, tpl |-> <<>>,
     prompt |-> <<>>, cache_key |-> <<>>, cached_result |-> None, api_result |-> <<>>,
     ret |-> None, raised |-> "", path |-> "", invoked |-> <<>>,
     net |-> 0, client_calls |-> 0, looked_up |-> FALSE, tried |-> <<>>]

\* return result: the caller now holds the dict
Return(S, f, result, path) ==
    LET S1 == [S EXCEPT !.heap = Append(@, result)]
    IN [S |-> S1,
        f |-> [f EXCEPT !.pc = "done", !.ret = Len(S1.heap), !.path = path,
                        !.result = result]]

\* a failing return that has looked the request up in the result cache
FinishAfterLookup(S, f, result, path) ==
    Return([S EXCEPT !.history = AddToHistory(@, result),
                     !.appended = Append(@, result),
                     !.cacheStats.misses = @ + 1],
           f, result, path)

\* self._add_to_history(result); return result
Finish(S, f, result, path) ==
    Return([S EXCEPT !.history = AddToHistory(@, result),
                     !.appended = Append(@, result)],
           f, result, path)

\* the outer "except Exception" of generate
Unexpected(S, f, text) ==
    Finish(S, f, WithError(f.result, <<"Unexpected error: ">> \o text), "unexpected")

\* generate from its first line to the cache lookup
GenBegin(S, f) ==
    LET request_id == S.nextId
        S1 == [S EXCEPT !.nextId = @ + 1]
        name == f.req.template_name
        merged == f.req.variables.items
        result == BaseResult(name, merged, S.now, request_id)
        f1 == [f EXCEPT !.request_id = request_id, !.result = result]
        v == validate_input(name, merged)
        lookup == GetTemplate(S.templates, S.engine, name)
        tpl == lookup.tpl
        S1e == [S1 EXCEPT !.engine = lookup.engine]
        gen == TemplateGenerate(tpl, merged, TRUE)
        key == GenerateCacheKey(name, merged)
        got == LRUGet(S1.cache, S1.cacheStats, key, S1.now)
        S2 == IF f.req.use_cache
              THEN [S1e EXCEPT !.cache = got.cache, !.cacheStats = got.stats,
                               !.recency = Recency(@, key, got.data # None, got.cache)]
              ELSE S1e
        f2 == [f1 EXCEPT !.tpl = tpl, !.prompt = gen.prompt, !.cache_key = key,
                         !.looked_up = f.req.use_cache]
    IN IF ~f.req.variables.mapping
       THEN \* dict(variables or {}) raises before the try block is entered
            [S |-> S1,
             f |-> [f EXCEPT !.pc = "raised", !.raised = "TypeError",
                             !.request_id = request_id, !.path = "raised"]]
       ELSE IF ~v.is_valid
       THEN Finish(S1, f1, WithError(result, <<"Validation failed: ">> \o v.error_msg),
                   "validation")
       ELSE IF lookup.raised = "TemplateNotFoundError"
       THEN Finish(S1, f1, WithError(result, <<"Template not found: ", name>>), "not_found")
       ELSE IF lookup.raised # ""
       THEN Unexpected(S1e, f1, lookup.message)
       ELSE IF gen.raised = "VariableValidationError"
       THEN Finish(S1e, f1,
                   WithError(result, <<"Variable validation failed: ">> \o gen.message),
                   "render")
       ELSE IF gen.raised # ""
       THEN Unexpected(S1e, f1, gen.message)
       ELSE IF f.req.use_cache /\ got.data # None
       THEN [S |-> S2, f |-> [f2 EXCEPT !.pc = "hit", !.cached_result = got.data]]
       ELSE IF ~S.hasManager
       THEN Finish(S2, f2, WithError(result, <<"API manager not initialized">>),
                   "no_manager")
       ELSE [S |-> S2, f |-> [f2 EXCEPT !.pc = "call"]]

\* cache hit: the metadata is written into the dict that the cache holds
GenHitMutate(S, f) ==
    [S |-> [S EXCEPT !.heap[f.cached_result] =
                        [@ EXCEPT !.request_id = f.request_id,
                                  !.timestamp = f.result.timestamp,
                                  !.cached = TRUE]],
     f |-> [f EXCEPT !.pc = "hit_record"]]

\* cache hit: history, callbacks, return cached_result
GenHitRecord(S, f) ==
    LET cached_result == S.heap[f.cached_result]
        S1 == [S EXCEPT !.history = AddToHistory(@, cached_result),
                        !.appended = Append(@, cached_result)]
        inv == InvokeCallbacks(S.callbacks)
        f1 == [f EXCEPT !.invoked = inv.invoked]
    IN IF inv.raised # ""
       THEN Unexpected(S1, f1, <<inv.raised>>)
       ELSE [S |-> S1,
             f |-> [f1 EXCEPT !.pc = "done", !.ret = f.cached_result, !.path = "hit"]]

\* ContentGenerator._call_api_with_retry: plan[k] is what the provider
\* answers during the k-th client call
RECURSIVE CallApiLoop(_, _, _, _, _, _, _, _, _, _)
\* what one client invocation did, for observation: whether it returned a
\* success, the exception it raised, the requests it sent to the provider
\* and the parameters they carried
Invocation(r) ==
    [success |-> r.raised = "" /\ r.result.success, raised |-> r.raised,
     net |-> r.net, sleeps |-> r.sleeps, sent |-> r.sent]

\* the k-th client call of the loop has ended as r says
CallApiNext(r, t, prompt, api_overrides, attempts, plan, attempt, net, tried) ==
    IF r.raised = "" /\ r.result.success
    THEN [client |-> r.client, result |-> r.result,
          net |-> net + r.net, calls |-> attempt,
          tried |-> Append(tried, Invocation(r))]
    ELSE CallApiLoop(r.client, t, prompt, api_overrides, attempts, plan, attempt + 1,
                     IF r.raised # "" THEN <<r.raised>> ELSE r.result.error,
                     net + r.net, Append(tried, Invocation(r)))

CallApiLoop(c, t, prompt, api_overrides, attempts, plan, attempt, last_error, net, tried) ==
    IF attempt > attempts
    THEN [client |-> c,
          result |-> [success |-> FALSE,
                      error |-> <<"Failed after ", ToString(attempts),
                                  " attempts: ">> \o last_error],
          net |-> net, calls |-> attempts, tried |-> tried]
    ELSE IF api_overrides.model # ""
    THEN \* generate_content has no parameter named model: the call raises
         \* TypeError before the client does anything
         CallApiNext([client |-> c, raised |-> "TypeError",
                      result |-> [success |-> FALSE], net |-> 0, sleeps |-> <<>>,
                      sent |-> [max_tokens |-> 0, temperature |-> 0]],
                     t, prompt, api_overrides, attempts, plan, attempt, net, tried)
    ELSE CallApiNext(ClientGenerateContent(c, t, prompt, api_overrides.max_tokens,
                                           api_overrides.temperature, "", TRUE,
                                           plan[attempt]),
                     t, prompt, api_overrides, attempts, plan, attempt, net, tried)

\* a wrapper that never retries
CallApiOnce(cl, t, prompt, api_overrides, retry_on_failure, plan) ==
    CallApiLoop(cl, t, prompt, api_overrides, 1, plan, 1, <<"None">>, 0, <<>>)

CallApiWithRetry(cl, t, prompt, api_overrides, retry_on_failure, plan) ==
    CallApiLoop(cl, t, prompt, api_overrides,
                IF retry_on_failure THEN DEFAULT_RETRY_ATTEMPTS + 1 ELSE 1,
                plan, 1, <<"None">>, 0, <<>>)

\* _call_api_with_retry has returned api: the client is as api.client says
ClientReturned(S, f, api) ==
    [S |-> [S EXCEPT !.client = api.client, !.netCalls = @ + api.net,
                     !.calls = Append(@, [request_id |-> f.request_id,
                                          retry_on_failure |-> f.req.retry_on_failure,
                                          tried |-> api.tried])],
     f |-> [f EXCEPT !.pc = "record", !.api_result = api.result,
                     !.net = api.net, !.client_calls = api.calls,
                     !.tried = api.tried]]

\* generate from the template recommendations to the return of the client
GenCall(S, f, plan) ==
    LET given == f.req.api_overrides
        api_overrides ==
            [temperature |-> IF Has(given, "temperature") THEN given.temperature
                             ELSE f.tpl.temperature_recommendation,
             max_tokens |-> IF Has(given, "max_tokens") THEN given.max_tokens
                            ELSE f.tpl.max_tokens_recommendation,
             \* "" when the caller gave no model
             model |-> IF Has(given, "model") THEN given.model ELSE ""]
    IN ClientReturned(S, f, CallApiWithRetry(S.client, S.now, f.prompt, api_overrides,
                                             f.req.retry_on_failure, plan))

\* a generate that also caches the failed result of the client
GenRecordCachesFailure(S, f) ==
    LET api_result == f.api_result
        result == [f.result EXCEPT !.success = TRUE,
                                   !.content = sanitize_output(api_result.content),
                                   !.model = api_result.model,
                                   !.tokens_used = api_result.tokens_used,
                                   !.cost = api_result.cost,
                                   !.cached = FALSE]
        kept == IF api_result.success THEN result
                ELSE WithError(f.result, api_result.error)
        copy == Len(S.heap) + 1
        S0 == [S EXCEPT !.heap = Append(@, kept),
                        !.cache = LRUSet(@, MAX_CACHE_SIZE, CACHE_TTL_SECONDS,
                                         f.cache_key, copy, S.now),
                        !.recency = Recency(@, f.cache_key, TRUE,
                                            LRUSet(S.cache, MAX_CACHE_SIZE,
                                                   CACHE_TTL_SECONDS, f.cache_key,
                                                   copy, S.now))]
        S1 == [S0 EXCEPT !.totalCost = @ + result.cost,
                         !.history = AddToHistory(@, result),
                         !.appended = Append(@, result)]
        inv == InvokeCallbacks(S.callbacks)
        f1 == [f EXCEPT !.invoked = inv.invoked, !.result = result]
    IN IF ~api_result.success
       THEN Finish(S0, f, kept, "api_failure")
       ELSE IF inv.raised # ""
       THEN Unexpected(S1, f1, <<inv.raised>>)
       ELSE Return(S1, f1, result, "success")

\* generate after the client has returned
GenRecord(S, f) ==
    LET api_result == f.api_result
        result == [f.result EXCEPT !.success = TRUE,
                                   !.content = sanitize_output(api_result.content),
                                   !.model = api_result.model,
                                   !.tokens_used = api_result.tokens_used,
                                   !.cost = api_result.cost,
                                   !.cached = FALSE]
        copy == Len(S.heap) + 1       \* result.copy()
        S1 == [S EXCEPT !.totalCost = @ + result.cost,
                        !.heap = Append(@, result),
                        !.cache = LRUSet(@, MAX_CACHE_SIZE, CACHE_TTL_SECONDS,
                                         f.cache_key, copy, S.now),
                        !.recency = Recency(@, f.cache_key, TRUE,
                                            LRUSet(S.cache, MAX_CACHE_SIZE,
                                                   CACHE_TTL_SECONDS, f.cache_key,
                                                   copy, S.now)),
                        !.stored = {e \in @ : e.ident # <<f.req.template_name, f.req.variables.items>>}
                                     \cup {[ident |-> <<f.req.template_name, f.req.variables.items>>,
                                            at |-> S.now,
                                            use_cache |-> f.req.use_cache,
                                            prompt |-> f.prompt,
                                            cleared |-> FALSE]},
                        !.history = AddToHistory(@, result),
                        !.appended = Append(@, result)]
        inv == InvokeCallbacks(S.callbacks)
        f1 == [f EXCEPT !.invoked = inv.invoked, !.result = result]
    IN IF ~api_result.success
       THEN Finish(S, f, WithError(f.result, api_result.error), "api_failure")
       ELSE IF inv.raised # ""
       THEN Unexpected(S1, f1, <<inv.raised>>)
       ELSE Return(S1, f1, result, "success")

\* one stretch of a generate call
GenStep(S, f, plan) ==
    CASE f.pc = "begin" -> GenBegin(S, f)
      [] f.pc = "hit" -> GenHitMutate(S, f)
      [] f.pc = "hit_record" -> GenHitRecord(S, f)
      [] f.pc = "call" -> GenCall(S, f, plan)
      [] f.pc = "record" -> GenRecord(S, f)

\* a generate call run from where it stands to its end, with no other
\* thread running in between
RECURSIVE RunGenerate(_, _, _)
RunFrom(n, plan) == RunGenerate(n.S, n.f, plan)

RunGenerate(S, f, plan) ==
    IF f.pc \in {"done", "raised"}
    THEN [S |-> S, f |-> f]
    ELSE RunFrom(GenStep(S, f, plan), plan)

\* ContentGenerator.get_statistics: the money figures (micro-dollars, so
\* round(x, 6) is the identity) and the counts
CostOf(h) == IF Has(h, "cost") THEN h.cost ELSE 0

\* statistics whose total is the running counter _total_cost
GetStatisticsFromCounter(S) ==
    LET hist == S.history
        names == {hist[i].template_used : i \in DOMAIN hist}
        Of(n) == SelectSeq(hist, LAMBDA h : h.template_used = n)
    IN [total_generations |-> Len(hist),
        total_cost |-> S.totalCost,
        templates_used |-> [n \in names |-> Len(Of(n))],
        successful |-> Len(SelectSeq(hist, LAMBDA h : h.success)),
        cost_by_template |-> [n \in names |-> SeqSum(Of(n), CostOf)],
        history_size |-> Len(hist),
        cache_size |-> Len(S.cache)]

GetStatistics(S) ==
    LET hist == S.history
        names == {hist[i].template_used : i \in DOMAIN hist}
        Of(n) == SelectSeq(hist, LAMBDA h : h.template_used = n)
    IN [total_generations |-> Len(hist),
        total_cost |-> SeqSum(hist, CostOf),
        templates_used |-> [n \in names |-> Len(Of(n))],
        successful |-> Len(SelectSeq(hist, LAMBDA h : h.success)),
        cost_by_template |-> [n \in names |-> SeqSum(Of(n), CostOf)],
        history_size |-> Len(hist),
        cache_size |-> Len(S.cache)]

-----------------------------------------------------------------------------
(* generate_batch and generate_multiple_variations.  A batch entry is      *)
(* [is_dict, body]: body is the dict when the entry is one.                *)

\* a validation loop that lets a dict without template_name through
ValidateRequestLax(i, req) ==
    IF ~req.is_dict
    THEN [valid |-> FALSE, error |-> <<"Request ", ToString(i), " is not a dictionary">>]
    ELSE [valid |-> TRUE,
          template_name |-> IF Has(req.body, "template_name")
                            THEN req.body.template_name ELSE "",
          variables |-> IF Has(req.body, "variables") THEN req.body.variables
                        ELSE [mapping |-> TRUE, items |-> <<>>]]

\* the validation loop of generate_batch; i is the 0-based index
ValidateRequest(i, req) ==
    IF ~req.is_dict
    THEN [valid |-> FALSE, error |-> <<"Request ", ToString(i), " is not a dictionary">>]
    ELSE IF ~Has(req.body, "template_name") \/ req.body.template_name = ""
    THEN [valid |-> FALSE,
          error |-> <<"Request ", ToString(i), " missing 'template_name'">>]
    ELSE [valid |-> TRUE,
          template_name |-> req.body.template_name,
          variables |-> IF Has(req.body, "variables") THEN req.body.variables
                        ELSE [mapping |-> TRUE, items |-> <<>>]]

ValidateRequests(requests) ==
    [i \in DOMAIN requests |-> ValidateRequest(i - 1, requests[i])]

\* the record built for an entry that failed the validation loop
MalformedResult(S, error) ==
    LET result == [success |-> FALSE, error |-> error, timestamp |-> S.now,
                   request_id |-> S.nextId]
        S1 == [S EXCEPT !.nextId = @ + 1, !.heap = Append(@, result)]
    IN [S |-> S1, ref |-> Len(S1.heap)]

\* the frame of the generate call that a valid entry leads to
BatchFrame(v) ==
    NewFrame([template_name |-> v.template_name, variables |-> v.variables,
              use_cache |-> TRUE, retry_on_failure |-> TRUE, api_overrides |-> <<>>])

\* the sequential branch of generate_batch from entry i on
RECURSIVE BatchSequential(_, _, _, _, _)
\* entry i was malformed and m is its record
BatchAfterMalformed(m, validated, i, results, plans) ==
    BatchSequential(m.S, validated, i + 1, Append(results, m.ref), plans)

\* the generate call of entry i has ended as r says: an exception leaves
\* generate_batch
BatchAfterGenerate(r, validated, i, results, plans) ==
    IF r.f.pc = "raised"
    THEN [S |-> r.S, raised |-> r.f.raised, results |-> <<>>]
    ELSE BatchSequential(r.S, validated, i + 1, Append(results, r.f.ret), plans)

BatchSequential(S, validated, i, results, plans) ==
    IF i > Len(validated)
    THEN [S |-> S, raised |-> "", results |-> results]
    ELSE IF ~validated[i].valid
    THEN BatchAfterMalformed(MalformedResult(S, validated[i].error),
                             validated, i, results, plans)
    ELSE BatchAfterGenerate(RunGenerate(S, BatchFrame(validated[i]), plans[i]),
                            validated, i, results, plans)

\* the temperature of variation i (0-based), in hundredths
VariationTemperature(temperature_range, i, count) ==
    IF count > 1
    THEN temperature_range[1]
           + ((temperature_range[2] - temperature_range[1]) * i) \div (count - 1)
    ELSE (temperature_range[1] + temperature_range[2]) \div 2

\* generate_multiple_variations from variation i (0-based) on;
\* temperature_range is <<>> for None
RECURSIVE Variations(_, _, _, _, _, _, _, _)
\* the generate call of variation i has returned: tag its record and go on
VariationDone(r, template_name, variables, count, temperature_range, i, results, plans, temperature) ==
    Variations([r.S EXCEPT !.heap[r.f.ret] =
                   Put(Put(@, "variation_number", i + 1),
                       "variation_temperature", temperature)],
               template_name, variables, count, temperature_range, i + 1,
               Append(results, r.f.ret), plans)

Variations(S, template_name, variables, count, temperature_range, i, results, plans) ==
    IF i >= count
    THEN [S |-> S, raised |-> "", results |-> results]
    ELSE IF ~variables.mapping
    THEN \* variables.copy() on a value that has no copy method
         [S |-> S, raised |-> "AttributeError", results |-> <<>>]
    ELSE LET overrides ==
                 IF temperature_range # <<>>
                 THEN [temperature |-> VariationTemperature(temperature_range, i, count)]
                 ELSE <<>>
             variation_vars ==
                 Put(Put(variables.items, "_variation_number", ToString(i + 1)),
                     "_total_variations", ToString(count))
         IN VariationDone(RunGenerate(S,
                                      NewFrame([template_name |-> template_name,
                                                variables |-> [mapping |-> TRUE,
                                                               items |-> variation_vars],
                                                use_cache |-> FALSE,
                                                retry_on_failure |-> TRUE,
                                                api_overrides |-> overrides]),
                                      plans[i + 1]),
                          template_name, variables, count, temperature_range, i,
                          results, plans,
                          IF temperature_range # <<>> THEN overrides.temperature ELSE None)

-----------------------------------------------------------------------------
(* The state, and what an operation leaves behind for observation.         *)

State ==
    [now |-> now, nextId |-> nextId, heap |-> heap, history |-> history,
     appended |-> appended, stored |-> stored, cache |-> cache,
     cacheStats |-> cacheStats, recency |-> recency, totalCost |-> totalCost,
     callbacks |-> callbacks,
     hasManager |-> hasManager, client |-> client, netCalls |-> netCalls,
     templates |-> templates, engine |-> engine,
     \* the calls of _call_api_with_retry made by the operation under way
     calls |-> <<>>]

Becomes(S) ==
    /\ now' = S.now
    /\ nextId' = S.nextId
    /\ heap' = S.heap
    /\ history' = S.history
    /\ appended' = S.appended
    /\ stored' = S.stored
    /\ cache' = S.cache
    /\ cacheStats' = S.cacheStats
    /\ recency' = S.recency
    /\ totalCost' = S.totalCost
    /\ callbacks' = S.callbacks
    /\ hasManager' = S.hasManager
    /\ client' = S.client
    /\ netCalls' = S.netCalls
    /\ templates' = S.templates
    /\ engine' = S.engine

program == <<now, nextId, heap, history, appended, stored, cache, cacheStats, recency,
             totalCost, callbacks, hasManager, client, netCalls, templates, engine>>

Obs(op) ==
    [op |-> op, raised |-> "", rets |-> <<>>, path |-> "", req |-> <<>>,
     net |-> 0, client_calls |-> 0, invoked |-> <<>>, callbacks |-> <<>>,
     appended_before |-> 0, fresh |-> FALSE, after_clear |-> FALSE,
     client_had |-> FALSE, stats |-> <<>>, parallel |-> FALSE, requests |-> <<>>,
     removed |-> 0, calls |-> <<>>, prompt |-> <<>>, asked |-> <<>>,
     response |-> <<>>, caught |-> "", sleeps |-> <<>>,
     count |-> 0, temperature_range |-> <<>>, estimate |-> <<>>, answer |-> <<>>]

NoBatch ==
    [active |-> FALSE, requests |-> <<>>, validated |-> <<>>, results |-> <<>>,
     collected |-> {}, appended_before |-> 0]

\* ContentGenerator.__init__ with the built-in templates, and
\* OpenAIManager.__init__ with its defaults; the construction of the client
\* may fail, which leaves api_manager = None
Init ==
    /\ now = 0
    /\ nextId = 1
    /\ heap = <<>>
    /\ history = <<>>
    /\ appended = <<>>
    /\ stored = {}
    /\ cache = <<>>
    /\ cacheStats = [hits |-> 0, misses |-> 0]
    /\ recency = <<>>
    /\ totalCost = 0
    /\ callbacks = <<>>
    /\ hasManager \in BOOLEAN
    /\ client = [cache |-> <<>>,
                 stats |-> [total_requests |-> 0, successful_requests |-> 0,
                            failed_requests |-> 0, total_prompt_tokens |-> 0,
                            total_completion_tokens |-> 0, total_tokens |-> 0,
                            total_cost |-> 0],
                 request_counter |-> 0, model |-> DEFAULT_MODEL,
                 max_tokens |-> DEFAULT_CLIENT_MAX_TOKENS,
                 temperature |-> DEFAULT_CLIENT_TEMPERATURE,
                 \* Optional values: <<>> is None, <<v>> is v
                 api_key_valid |-> <<>>, api_key_validated_at |-> <<>>]
    /\ netCalls = 0
    /\ returned = <<>>
    /\ templates = BuiltinTemplates
    /\ engine = [active |-> {n \in DOMAIN BuiltinTemplates : BuiltinTemplates[n].enabled},
                 cached |-> <<>>]
    /\ last = Obs("init")
    /\ threads = <<>>
    /\ batch = NoBatch

-----------------------------------------------------------------------------
(* Inputs *)

Mapping(items) == [mapping |-> TRUE, items |-> items]

\* a variables argument that is not a mapping, such as the integer 5
NotAMapping == [mapping |-> FALSE, items |-> <<>>]

Req(template_name, variables, use_cache, retry_on_failure) ==
    [template_name |-> template_name, variables |-> variables,
     use_cache |-> use_cache, retry_on_failure |-> retry_on_failure,
     api_overrides |-> <<>>]

TeaVars == [topic |-> "tea", keyword |-> "green tea"]

GenerateInputs ==
    {Req("meta_description", Mapping(TeaVars), uc, TRUE) : uc \in BOOLEAN}
    \cup {Req("meta_description", Mapping([topic |-> "tea"]), TRUE, TRUE),
          Req("meta_description", Mapping([topic |-> "tea", keyword |-> " "]), TRUE, TRUE),
          Req("meta_description",
              Mapping([topic |-> "javascript:alert(1)", keyword |-> "tea"]), TRUE, TRUE),
          Req("weekly_digest", Mapping(TeaVars), TRUE, TRUE),
          Req("meta_description", NotAMapping, TRUE, TRUE)}

Ok == Outcome("ok", "Fresh tea daily.", 120, 40, FALSE)
OkTie == Outcome("ok", "<script>alert(1)</script>Fresh tea daily.", 121, 40, TRUE)

\* what the provider answers during the client calls of one generate
Plans ==
    {<<<<Ok>>>>,
     <<<<Failure("RateLimitError"), OkTie>>>>,
     <<<<Failure("AuthenticationError")>>, <<Ok>>>>,
     <<<<Failure("AuthenticationError")>>,
       <<Failure("APIConnectionError"), Failure("APIConnectionError"),
         Failure("APIConnectionError")>>>>}

-----------------------------------------------------------------------------
(* Operations called from the main thread *)

\* the identity of a request for the result cache, as the caller sees it
Ident(req) == <<req.template_name, req.variables.items>>

\* the client's response cache holds an unexpired answer for the prompt
\* that req renders to
ClientHolds(S, req) ==
    /\ req.variables.mapping
    /\ req.template_name \in DOMAIN S.templates
    /\ LET gen == TemplateGenerate(S.templates[req.template_name],
                                   req.variables.items, TRUE)
           key == ClientKey(gen.prompt, "", S.client.model)
       IN /\ gen.raised = ""
          /\ key \in DOMAIN S.client.cache
          /\ ~ClientExpired(S.client.cache[key], S.now)

\* what a finished generate call leaves for observation
ObserveGenerate(S, f) ==
    [Obs("generate") EXCEPT
        !.raised = f.raised,
        !.rets = IF f.pc = "done" THEN <<f.ret>> ELSE <<>>,
        !.path = f.path,
        !.req = f.req,
        !.prompt = f.prompt,
        !.net = f.net,
        !.client_calls = f.client_calls,
        !.invoked = f.invoked,
        !.callbacks = S.callbacks,
        !.appended_before = Len(S.appended),
        !.fresh = \E e \in S.stored :
                     /\ e.ident = Ident(f.req) /\ ~e.cleared /\ e.use_cache
                     /\ S.now <= e.at + CACHE_TTL_SECONDS,
        !.after_clear = \E e \in S.stored : e.ident = Ident(f.req) /\ e.cleared,
        !.client_had = ClientHolds(S, f.req)]

\* generator.generate(template_name, variables, use_cache, retry_on_failure)
Generate(req, plan) ==
    /\ ~batch.active
    /\ \E r \in {RunGenerate(State, NewFrame(req), plan)} :
          /\ Becomes(r.S)
          /\ returned' = IF r.f.pc = "done" THEN Append(returned, r.f.ret) ELSE returned
          /\ last' = [ObserveGenerate(State, r.f) EXCEPT !.calls = r.S.calls]
    /\ UNCHANGED <<threads, batch>>

\* generator.clear_cache()
ClearCache ==
    /\ ~batch.active
    /\ cache' = <<>>
    /\ recency' = <<>>
    /\ stored' = {[e EXCEPT !.cleared = TRUE] : e \in stored}
    /\ last' = [Obs("clear_cache") EXCEPT !.removed = Len(cache)]
    /\ UNCHANGED <<now, nextId, heap, history, appended, cacheStats, totalCost,
                   callbacks, hasManager, client, netCalls, returned, templates, engine,
                   threads, batch>>

\* generator.clear_history()
ClearHistory ==
    /\ ~batch.active
    /\ history' = <<>>
    /\ appended' = <<>>
    /\ last' = [Obs("clear_history") EXCEPT !.removed = Len(history)]
    /\ UNCHANGED <<now, nextId, heap, stored, cache, cacheStats, recency, totalCost,
                   callbacks, hasManager, client, netCalls, returned, templates, engine,
                   threads, batch>>

\* generator.get_statistics()
ReadStatistics ==
    /\ ~batch.active
    /\ last' = [Obs("get_statistics") EXCEPT !.stats = GetStatistics(State)]
    /\ UNCHANGED <<program, returned, threads, batch>>

\* generator.register_callback(cb)
RegisterCallback(cb) ==
    /\ ~batch.active
    /\ Len(callbacks) < MaxCallbacks
    /\ callbacks' = Append(callbacks, cb)
    /\ last' = Obs("register_callback")
    /\ UNCHANGED <<now, nextId, heap, history, appended, stored, cache, cacheStats, recency,
                   totalCost, hasManager, client, netCalls, returned, templates, engine,
                   threads, batch>>

\* list.remove: the first occurrence
RemoveFirst(s, x) ==
    IF \E i \in DOMAIN s : s[i] = x
    THEN RemoveAt(s, CHOOSE i \in DOMAIN s : s[i] = x /\ \A j \in 1..(i - 1) : s[j] # x)
    ELSE s

\* generator.unregister_callback(cb)
UnregisterCallback(cb) ==
    /\ ~batch.active
    /\ callbacks' = RemoveFirst(callbacks, cb)
    /\ last' = [Obs("unregister_callback") EXCEPT
                   !.removed = Len(callbacks) - Len(RemoveFirst(callbacks, cb))]
    /\ UNCHANGED <<now, nextId, heap, history, appended, stored, cache, cacheStats, recency,
                   totalCost, hasManager, client, netCalls, returned, templates, engine,
                   threads, batch>>

\* time passes
Tick ==
    /\ ~batch.active
    /\ now < MaxTicks * TickSeconds
    /\ now' = now + TickSeconds
    /\ last' = Obs("tick")
    /\ UNCHANGED <<nextId, heap, history, appended, stored, cache, cacheStats, recency,
                   totalCost, callbacks, hasManager, client, netCalls, returned,
                   templates, engine, threads, batch>>

\* what a finished generate_batch call leaves for observation
ObserveBatch(requests, parallel, raised, results, appended_before) ==
    [Obs("generate_batch") EXCEPT
        !.raised = raised, !.rets = results, !.parallel = parallel,
        !.requests = requests, !.appended_before = appended_before]

NonNone(refs) == SelectSeq(refs, LAMBDA r : r # None)

\* generator.generate_batch(requests, parallel) when it takes the
\* sequential branch: parallel is false or there is no API manager
GenerateBatchSequential(requests, parallel, plans) ==
    /\ ~batch.active
    /\ ~(parallel /\ hasManager)
    /\ \E r \in {BatchSequential(State, ValidateRequests(requests), 1, <<>>, plans)} :
          /\ Becomes(r.S)
          /\ returned' = returned \o r.results
          /\ last' = [ObserveBatch(requests, parallel, r.raised, r.results,
                                    Len(appended)) EXCEPT !.calls = r.S.calls]
    /\ UNCHANGED <<threads, batch>>

\* generator.generate_batch(requests, parallel=True) up to the submission of
\* the entries to the thread pool
BatchStart(requests) ==
    /\ ~batch.active
    /\ requests # <<>>
    /\ hasManager
    /\ batch' = [active |-> TRUE, requests |-> requests,
                 validated |-> ValidateRequests(requests),
                 results |-> [i \in DOMAIN requests |-> None],
                 collected |-> {}, appended_before |-> Len(appended)]
    /\ threads' = [i \in DOMAIN requests |-> [pc |-> "queued"]]
    /\ last' = Obs("generate_batch_started")
    /\ UNCHANGED <<program, returned>>

Running == {i \in DOMAIN threads : threads[i].pc \notin {"queued", "done", "raised"}}

\* a pool that starts a thread for every entry submitted
PoolNeverFull == TRUE

\* ThreadPoolExecutor(max_workers=3): a worker thread is free
PoolHasRoom == Cardinality(Running) < MAX_WORKERS

\* a pool worker takes the next queued entry and runs process_single up to
\* the first point where another thread can interleave
WorkerStart(i) ==
    /\ batch.active
    /\ threads[i].pc = "queued"
    /\ \A j \in 1..(i - 1) : threads[j].pc # "queued"
    /\ PoolHasRoom
    /\ IF ~batch.validated[i].valid
       THEN \E m \in {MalformedResult(State, batch.validated[i].error)} :
               /\ Becomes(m.S)
               /\ threads' = [threads EXCEPT ![i] = [pc |-> "done", ret |-> m.ref]]
       ELSE \E r \in {GenBegin(State, BatchFrame(batch.validated[i]))} :
               /\ Becomes(r.S)
               /\ threads' = [threads EXCEPT ![i] = r.f]
    /\ UNCHANGED <<returned, last, batch>>

\* a worker's generate call moves on by one stretch that needs no answer
\* from the provider
WorkerStep(i) ==
    /\ batch.active
    /\ threads[i].pc \in {"hit", "hit_record", "record"}
    /\ \E r \in {GenStep(State, threads[i], <<>>)} :
          /\ Becomes(r.S)
          /\ threads' = [threads EXCEPT ![i] = r.f]
    /\ UNCHANGED <<returned, last, batch>>

\* a worker's generate call goes through the client
WorkerCall(i, plan) ==
    /\ batch.active
    /\ threads[i].pc = "call"
    /\ \E r \in {GenCall(State, threads[i], plan)} :
          /\ Becomes(r.S)
          /\ threads' = [threads EXCEPT ![i] = r.f]
    /\ UNCHANGED <<returned, last, batch>>

\* as_completed hands a finished future to the collecting loop: the result
\* goes to its index, an exception is logged
Collect(i) ==
    /\ batch.active
    /\ i \notin batch.collected
    /\ threads[i].pc \in {"done", "raised"}
    /\ batch' = [batch EXCEPT !.collected = @ \cup {i},
                              !.results[i] = IF threads[i].pc = "done"
                                             THEN threads[i].ret ELSE None]
    /\ UNCHANGED <<program, returned, last, threads>>

\* the calls of _call_api_with_retry that the workers made
WorkerCalls ==
    SelectSeq([i \in DOMAIN threads |->
                  IF Has(threads[i], "tried")
                  THEN [request_id |-> threads[i].request_id,
                        retry_on_failure |-> threads[i].req.retry_on_failure,
                        tried |-> threads[i].tried]
                  ELSE [request_id |-> None, retry_on_failure |-> FALSE, tried |-> <<>>]],
              LAMBDA c : c.tried # <<>>)

\* the parallel generate_batch returns its list
BatchReturn ==
    /\ batch.active
    /\ batch.collected = DOMAIN batch.requests
    /\ returned' = returned \o NonNone(batch.results)
    /\ last' = [ObserveBatch(batch.requests, TRUE, "", batch.results,
                             batch.appended_before) EXCEPT !.calls = WorkerCalls]
    /\ batch' = NoBatch
    /\ threads' = <<>>
    /\ UNCHANGED program

\* generator.generate_multiple_variations(template_name, variables, count,
\* temperature_range)
GenerateMultipleVariations(template_name, variables, count, temperature_range, plans) ==
    /\ ~batch.active
    /\ \E r \in {Variations(State, template_name, variables, count, temperature_range,
                              0, <<>>, plans)} :
          /\ Becomes(r.S)
          /\ returned' = returned \o r.results
          /\ last' = [Obs("generate_multiple_variations") EXCEPT
                         !.raised = r.raised, !.rets = r.results,
                         !.appended_before = Len(appended),
                         !.net = r.S.netCalls - netCalls,
                         !.calls = r.S.calls,
                         !.count = count, !.temperature_range = temperature_range]
    /\ UNCHANGED <<threads, batch>>

Callbacks == {"cb_log", "cb_raise"}

\* n more generate calls stay within a budget of bound calls
Budget(n, bound) == nextId + n <= bound + 1

\* generate calls, the result cache and the clock
Next ==
    \/ \E req \in GenerateInputs, plan \in Plans : Budget(1, MaxCalls) /\ Generate(req, plan)
    \/ ClearCache
    \/ Tick

Spec == Init /\ [][Next]_vars

Entry(body) == [is_dict |-> TRUE, body |-> body]

BatchEntries ==
    {Entry([template_name |-> "meta_description", variables |-> Mapping(TeaVars)]),
     Entry([template_name |-> "meta_description",
            variables |-> Mapping([topic |-> "tea"])]),
     Entry([template_name |-> "meta_description", variables |-> NotAMapping]),
     Entry([variables |-> Mapping(TeaVars)]),
     [is_dict |-> FALSE, body |-> <<>>]}

BatchInputs ==
    {<<>>} \cup UNION {[1..n -> BatchEntries] : n \in 1..MaxBatch}

\* what the provider answers to each generate call of a batch or of a run
\* of variations
CallPlans ==
    {<<<<Ok>>>>,
     <<<<Failure("AuthenticationError")>>, <<Failure("OpenAIAPIError")>>>>}

VariationInputs ==
    {Mapping(TeaVars), Mapping([topic |-> "tea"]), NotAMapping}

\* generate calls alone, in batches and in runs of variations
NextBatch ==
    \/ \E req \in GenerateInputs, plan \in Plans : Budget(1, MaxCalls) /\ Generate(req, plan)
    \/ \E requests \in BatchInputs, parallel \in BOOLEAN,
          plans \in [1..MaxBatch -> CallPlans] :
             Budget(Len(requests), MaxCalls)
                /\ GenerateBatchSequential(requests, parallel, plans)
    \/ \E requests \in BatchInputs :
          Budget(Len(requests), MaxCalls) /\ BatchStart(requests)
    \/ \E i \in DOMAIN threads : WorkerStart(i)
    \/ \E i \in DOMAIN threads : WorkerStep(i)
    \/ \E i \in DOMAIN threads, plan \in CallPlans : WorkerCall(i, plan)
    \/ \E i \in DOMAIN threads : Collect(i)
    \/ BatchReturn
    \/ \E variables \in VariationInputs, count \in 0..MaxVariations,
          temperature_range \in {<<>>, <<0, 100>>},
          plans \in [1..MaxVariations -> CallPlans] :
             Budget(count, MaxCalls)
                /\ GenerateMultipleVariations("meta_description", variables, count,
                                              temperature_range, plans)

SpecBatch == Init /\ [][NextBatch]_vars

\* generate calls, the history and the statistics read off it
NextStats ==
    \/ \E req \in GenerateInputs, plan \in Plans : Budget(1, MaxCalls) /\ Generate(req, plan)
    \/ ClearHistory
    \/ ReadStatistics

SpecStats == Init /\ [][NextStats]_vars

\* the one request of the behaviours that fill the history: it fails
\* validation, so each call costs one history entry and nothing else
RejectedRequest == Req("bad-name", Mapping(<<>>), TRUE, TRUE)

TeaEntry == Entry([template_name |-> "meta_description", variables |-> Mapping(TeaVars)])

\* generate calls up to and past the capacity of the history, then a
\* parallel batch whose workers append while the history is full
NextHistory ==
    \/ Budget(1, MaxAttempts) /\ Generate(RejectedRequest, <<>>)
    \/ /\ Len(history) >= MAX_HISTORY_SIZE - 1
       /\ Budget(2, MaxAttempts)
       /\ BatchStart(<<TeaEntry, TeaEntry>>)
    \/ \E i \in DOMAIN threads : WorkerStart(i)
    \/ \E i \in DOMAIN threads : WorkerStep(i)
    \/ \E i \in DOMAIN threads : WorkerCall(i, <<<<Ok>>>>)
    \/ \E i \in DOMAIN threads : Collect(i)
    \/ BatchReturn

SpecHistory == Init /\ [][NextHistory]_vars

\* generate calls and the callback list
NextCallbacks ==
    \/ \E req \in GenerateInputs, plan \in Plans : Budget(1, MaxCalls) /\ Generate(req, plan)
    \/ \E cb \in Callbacks : RegisterCallback(cb)
    \/ \E cb \in Callbacks : UnregisterCallback(cb)

SpecCallbacks == Init /\ [][NextCallbacks]_vars

\* a bound on the calls of the behaviours that go through every path of
\* generate
MaxPathCalls == 2

KettleVars == [product_name |-> "Kettle", features |-> "fast boil", audience |-> "students"]

\* requests that take each path of generate: valid ones with and without
\* the cache and the retry, and ones that fail validation, the template
\* lookup and the rendering
PathInputs ==
    {Req("meta_description", Mapping(TeaVars), uc, retry) : uc, retry \in BOOLEAN}
    \cup {Req("product_description", Mapping(KettleVars), TRUE, FALSE),
          Req("product_description", Mapping([product_name |-> "Kettle"]), TRUE, TRUE),
          Req("product_description",
              Mapping([product_name |-> "Kettle", audience |-> "students"]), TRUE, TRUE),
          Req("meta_description", Mapping([keyword |-> "green tea"]), TRUE, TRUE),
          Req("meta_description", Mapping([topic |-> "tea", keyword |-> " "]), TRUE, TRUE),
          Req("meta_description",
              Mapping([topic |-> "javascript:alert(1)", keyword |-> "tea"]), TRUE, TRUE),
          Req("meta_description", Mapping([topic |-> LONG_5001, keyword |-> "tea"]),
              TRUE, TRUE),
          Req("weekly_digest", Mapping(TeaVars), TRUE, TRUE),
          Req("bad-name", Mapping(TeaVars), TRUE, TRUE)}

\* what the provider answers during the first and the second client call of
\* one generate
PathPlans ==
    {<<<<Ok>>, <<Ok>>>>,
     <<<<Failure("RateLimitError"), Ok>>, <<Ok>>>>,
     <<<<Failure("AuthenticationError")>>, <<OkTie>>>>,
     <<<<Failure("RateLimitError"), Failure("RateLimitError"),
         Failure("RateLimitError")>>, <<Ok>>>>,
     <<<<Failure("AuthenticationError")>>, <<Failure("OpenAIAPIError")>>>>}

\* generate calls on every path, the result cache and the clock
NextPaths ==
    \/ \E req \in PathInputs, plan \in PathPlans :
          Budget(1, MaxPathCalls) /\ Generate(req, plan)
    \/ ClearCache
    \/ Tick

SpecPaths == Init /\ [][NextPaths]_vars

\* what the provider answers when both client calls of one generate use up
\* their attempts, and when the second one recovers on its last attempt
RetryPlans ==
    {<<<<Failure("RateLimitError"), Failure("RateLimitError"),
         Failure("RateLimitError")>>,
       <<Failure("APIConnectionError"), Failure("APIConnectionError"),
         Failure("APIConnectionError")>>>>,
     <<<<Failure("APIConnectionError"), Failure("RateLimitError"),
         Failure("APIConnectionError")>>,
       <<Failure("RateLimitError"), Failure("RateLimitError"), Ok>>>>,
     <<<<Failure("APITimeoutError"), Failure("APITimeoutError"),
         Failure("APITimeoutError")>>,
       <<Failure("AuthenticationError")>>>>}

\* generate calls against a provider that keeps failing
NextRetry ==
    \/ \E req \in PathInputs, plan \in PathPlans \cup RetryPlans :
          Budget(1, MaxPathCalls) /\ Generate(req, plan)
    \/ ClearCache
    \/ Tick

SpecRetry == Init /\ [][NextRetry]_vars

-----------------------------------------------------------------------------
(* The client called directly *)

MaxClientCalls == 2

\* manager.generate_content(prompt, system_message=..., use_cache=...);
\* outs[k] is what the provider answers to the k-th request of the call
ClientCall(prompt, system_message, use_cache, outs) ==
    /\ ~batch.active
    /\ hasManager
    /\ \E r \in {ClientGenerateContent(client, now, prompt, None, None, system_message,
                                        use_cache, outs)} :
          /\ client' = r.client
          /\ netCalls' = netCalls + r.net
          /\ last' = [Obs("generate_content") EXCEPT
                         !.raised = r.raised, !.net = r.net, !.prompt = prompt,
                         !.req = [system_message |-> system_message,
                                  use_cache |-> use_cache],
                         !.asked = SubSeq(outs, 1, r.net),
                         !.response = IF r.raised = "" THEN r.result ELSE <<>>,
                         !.caught = r.caught, !.sleeps = r.sleeps]
    /\ UNCHANGED <<now, nextId, heap, history, appended, stored, cache, cacheStats, recency,
                   totalCost, callbacks, hasManager, returned, templates, engine, threads,
                   batch>>

\* the exceptions chat.completions.create can raise, as _make_api_call
\* tells them apart
ProviderKinds ==
    {"ok", "RateLimitError", "APIConnectionError", "APITimeoutError",
     "AuthenticationError", "OpenAIAPIError", "timeout", "ValueError"}

ProviderAnswer(kind) == IF kind = "ok" THEN Ok ELSE Failure(kind)

\* the answers of the provider to four requests in a row
ClientPlans ==
    {<<ProviderAnswer(a), ProviderAnswer(b), ProviderAnswer(c), Ok>> :
        a \in ProviderKinds, b \in ProviderKinds,
        c \in {"ok", "RateLimitError", "APIConnectionError", "AuthenticationError"}}

ClientPrompts == {<<>>, <<"   ">>, <<"Describe green tea.">>}

\* client calls and the clock
NextClient ==
    \/ \E prompt \in ClientPrompts, system_message \in {"", "Be brief."},
          use_cache \in BOOLEAN, outs \in ClientPlans :
             /\ client.request_counter < MaxClientCalls
             /\ ClientCall(prompt, system_message, use_cache, outs)
    \/ Tick

SpecClient == Init /\ [][NextClient]_vars

-----------------------------------------------------------------------------
(* The result cache used directly.  get, set and clear each run under the  *)
(* cache's lock from their first line to their last, so a step of one      *)
(* thread is a whole call and an interleaving of threads is a sequence of  *)
(* calls.  Keys are numbers here, and the payload of a key is its number.     *)

MaxKeys == 102
MaxCacheGets == 3

\* generator._cache.set(key, data)
CacheSet(key, data) ==
    /\ ~batch.active
    /\ cache' = LRUSet(cache, MAX_CACHE_SIZE, CACHE_TTL_SECONDS, key, data, now)
    /\ recency' = Recency(recency, key, TRUE, cache')
    /\ nextId' = IF key = nextId THEN nextId + 1 ELSE nextId
    /\ last' = [Obs("cache_set") EXCEPT !.removed = Len(cache) + 1 - Len(cache'),
                                       !.req = [key |-> key, data |-> data]]
    /\ UNCHANGED <<now, heap, history, appended, stored, cacheStats, totalCost,
                   callbacks, hasManager, client, netCalls, returned, templates, engine,
                   threads, batch>>

\* generator._cache.get(key)
CacheGet(key) ==
    /\ ~batch.active
    /\ \E got \in {LRUGet(cache, cacheStats, key, now)} :
          /\ cache' = got.cache
          /\ cacheStats' = got.stats
          /\ recency' = Recency(recency, key, got.data # None, got.cache)
          /\ last' = [Obs("cache_get") EXCEPT !.rets = <<got.data>>,
                                               !.removed = Len(cache) - Len(got.cache),
                                               !.req = [key |-> key]]
    /\ UNCHANGED <<now, nextId, heap, history, appended, stored, totalCost,
                   callbacks, hasManager, client, netCalls, returned, templates, engine,
                   threads, batch>>

\* the cache is nearly full, full, or empty
AtTheEdge == Len(cache) = 0 \/ Len(cache) >= MAX_CACHE_SIZE - 1

\* threads that fill the cache with new keys up to and past its capacity,
\* set the newest and the oldest key again, read the oldest key and a key
\* never set, and clear; the clock moves when the cache is at the edge
NextCache ==
    \/ nextId <= MaxKeys /\ CacheSet(nextId, nextId)
    \/ cache # <<>> /\ AtTheEdge /\ CacheSet(cache[Len(cache)].key, cache[Len(cache)].key)
    \/ /\ Len(cache) = MAX_CACHE_SIZE
       /\ cache[1].key = nextId - MAX_CACHE_SIZE
       /\ CacheSet(cache[1].key, cache[1].key)
    \/ /\ AtTheEdge
       /\ cacheStats.hits + cacheStats.misses < MaxCacheGets
       /\ \E key \in {0} \cup {cache[i].key : i \in DOMAIN cache \cap {1}} : CacheGet(key)
    \/ Len(cache) >= MAX_CACHE_SIZE /\ ClearCache
    \/ cache # <<>> /\ AtTheEdge /\ Tick

SpecCache == Init /\ [][NextCache]_vars

-----------------------------------------------------------------------------
(* Cost estimates.  Token counts are read off the text: words by           *)
(* str.split(), characters by len(), and tokens by the tiktoken encoder,   *)
(* whose answer is an input.  Costs are in micro-dollars.                  *)

MaxEstimateCalls == 2

\* len(s.split()) of a part of a prompt; punctuation that opens a part
\* belongs to the word before it
WordCount(s) ==
    CASE s \in {"", " ", "   ", "]\n\n"} -> 0
      [] s = "Write an SEO-optimized meta description for a page about " -> 9
      [] s = ". Primary keyword: " -> 2
      [] s = ". Include a call-to-action. Must be 150-160 characters and compelling for search results." -> 12
      [] s = "You are an SEO specialist" -> 5
      [] s = "Write a " -> 2
      [] s = " product description for " -> 3
      [] s = ". Key features: " -> 2
      [] s = ". Target audience: " -> 2
      [] s = ". Length: " -> 1
      [] s = " words. Include a compelling call-to-action." -> 5
      [] s = "You are an expert e-commerce copywriter" -> 6
      [] s \in {"green tea", "fast boil"} -> 2
      [] OTHER -> 1

WordsOf(text) == SeqSum(text, WordCount)

CharsOf(text) == SeqSum(text, StrLen)

\* utils.calculate_token_count: int(word_count * 1.3)
calculate_token_count(text) ==
    IF text = <<>> THEN 0 ELSE (13 * WordsOf(text)) \div 10

\* what self._encoder.encode(text) does: it raises, or gives n tokens
EncoderRaises == [ok |-> FALSE, n |-> 0]
Encoded(n) == [ok |-> TRUE, n |-> n]

\* OpenAIManager._count_tokens
CountTokens(text, encoded) ==
    IF encoded.ok THEN encoded.n ELSE CharsOf(text) \div 4

\* an estimate that is counted as a request
ClientEstimateCounted(cl, text, model, encoded, tie_up) ==
    [client |-> [cl EXCEPT !.stats.total_requests = @ + 1],
     raised |-> "", net |-> 0,
     result |-> [input_tokens |-> 0, estimated_output_tokens |-> 0, total_tokens |-> 0,
                 input_cost |-> 0, output_cost |-> 0, total_cost |-> 0,
                 model |-> model]]

\* OpenAIManager.estimate_cost(text, model) with the default output ratio
\* of 1.5; model "" stands for None
ClientEstimateCost(cl, text, model, encoded, tie_up) ==
    LET use_model == IF model = "" THEN cl.model ELSE model
        input_tokens == CountTokens(text, encoded)
        wanted == (3 * input_tokens) \div 2
        estimated_output == IF wanted < cl.max_tokens THEN wanted ELSE cl.max_tokens
        known == use_model \in DOMAIN MODEL_COSTS
        input_cost == IF known
                      THEN Round6(input_tokens * MODEL_COSTS[use_model].input, 1000, tie_up)
                      ELSE 0
        output_cost == IF known
                       THEN Round6(estimated_output * MODEL_COSTS[use_model].output, 1000, tie_up)
                       ELSE 0
    IN [client |-> cl, raised |-> "", net |-> 0,
        result |-> [input_tokens |-> input_tokens,
                    estimated_output_tokens |-> estimated_output,
                    total_tokens |-> input_tokens + estimated_output,
                    input_cost |-> input_cost,
                    output_cost |-> output_cost,
                    total_cost |-> CalculateCost(use_model, input_tokens,
                                                 estimated_output, tie_up),
                    model |-> use_model]]

\* cost_rates of ContentGenerator.estimate_cost, used without a client
FALLBACK_COST_RATES ==
    [m \in {"gpt-4o-mini", "gpt-4o", "gpt-4", "gpt-3.5-turbo"} |->
        CASE m = "gpt-4o-mini" -> [input |-> 150, output |-> 600]
          [] m = "gpt-4o" -> [input |-> 5000, output |-> 15000]
          [] m = "gpt-4" -> [input |-> 30000, output |-> 60000]
          [] OTHER -> [input |-> 500, output |-> 1500]]

FailedEstimate(use_model, error) ==
    [success |-> FALSE, estimated_prompt_tokens |-> 0,
     estimated_completion_tokens |-> 0, estimated_total_tokens |-> 0,
     estimated_cost |-> 0, model |-> use_model, error |-> error]

\* ContentGenerator.estimate_cost(template_name, variables, model): the
\* state afterwards, the exception raised to the caller ("" when it
\* returns) and the record returned.  get_template also counts the lookup
\* in PromptEngine._usage_stats, which is not part of the state here.
EstimateCost(S, template_name, variables, model, encoded, tie_up) ==
    LET use_model == IF model = "" THEN "gpt-4o-mini" ELSE model
        lookup == GetTemplate(S.templates, S.engine, template_name)
        Se == [S EXCEPT !.engine = lookup.engine]
        Fails(error) == [S |-> Se, raised |-> "", net |-> 0,
                         result |-> FailedEstimate(use_model, error)]
    IN IF lookup.raised = "TemplateNotFoundError"
       THEN Fails(<<"Template '", template_name, "' not found">>)
       ELSE IF lookup.raised # ""
       THEN Fails(<<"Estimation failed: ">> \o lookup.message)
       ELSE IF ~variables.mapping
       THEN \* "var not in variables" raises TypeError, caught at the end
            Fails(<<"Estimation failed: ", "argument of type 'int' is not iterable">>)
       ELSE
       LET tpl == lookup.tpl
           missing == SelectSeq(tpl.required_variables,
                                LAMBDA v : ~Has(variables.items, v))
           gen == TemplateGenerate(tpl, variables.items, TRUE)
       IN IF missing # <<>>
          THEN Fails(<<"Missing required variables: ">> \o missing)
          ELSE IF gen.raised = "VariableValidationError"
          THEN Fails(<<"Variable validation failed: ">> \o gen.message)
          ELSE IF gen.raised # ""
          THEN Fails(<<"Estimation failed: ">> \o gen.message)
          ELSE
          LET words == calculate_token_count(gen.prompt)
              max_tokens == IF tpl.max_tokens_recommendation = 0
                            THEN 500 ELSE tpl.max_tokens_recommendation
              client_estimate == ClientEstimateCost(Se.client, gen.prompt, use_model,
                                                    encoded, tie_up)
              prompt_tokens == IF S.hasManager
                               THEN client_estimate.result.input_tokens ELSE words
              estimated_completion ==
                  IF S.hasManager
                  THEN client_estimate.result.estimated_output_tokens
                  ELSE (6 * max_tokens) \div 10
              rates == IF use_model \in DOMAIN FALLBACK_COST_RATES
                       THEN FALLBACK_COST_RATES[use_model]
                       ELSE FALLBACK_COST_RATES["gpt-4o-mini"]
              estimated_cost ==
                  IF S.hasManager
                  THEN client_estimate.result.total_cost
                  ELSE Round6(prompt_tokens * rates.input
                                + estimated_completion * rates.output, 1000, tie_up)
          IN [S |-> IF S.hasManager
                    THEN [Se EXCEPT !.client = client_estimate.client]
                    ELSE Se,
              raised |-> "", net |-> client_estimate.net,
              result |-> [success |-> TRUE,
                          estimated_prompt_tokens |-> prompt_tokens,
                          estimated_completion_tokens |-> estimated_completion,
                          estimated_total_tokens |-> prompt_tokens + estimated_completion,
                          estimated_cost |-> estimated_cost,
                          model |-> use_model, error |-> <<>>]]

\* generator.estimate_cost(template_name, variables, model)
EstimateCostCall(template_name, variables, model, encoded, tie_up) ==
    /\ ~batch.active
    /\ \E r \in {EstimateCost(State, template_name, variables, model, encoded, tie_up)} :
          /\ Becomes(r.S)
          /\ last' = [Obs("estimate_cost") EXCEPT
                         !.raised = r.raised, !.net = r.S.netCalls - netCalls,
                         !.req = [template_name |-> template_name,
                                  variables |-> variables, model |-> model],
                         !.estimate = r.result]
    /\ UNCHANGED <<returned, threads, batch>>

\* manager.estimate_cost(text, model)
ClientEstimateCostCall(text, model, encoded, tie_up) ==
    /\ ~batch.active
    /\ hasManager
    /\ \E r \in {ClientEstimateCost(client, text, model, encoded, tie_up)} :
          /\ client' = r.client
          /\ netCalls' = netCalls + r.net
          /\ last' = [Obs("client_estimate_cost") EXCEPT
                         !.raised = r.raised, !.net = r.net, !.prompt = text,
                         !.req = [model |-> model], !.estimate = r.result]
    /\ UNCHANGED <<now, nextId, heap, history, appended, stored, cache, cacheStats, recency,
                   totalCost, callbacks, hasManager, returned, templates, engine, threads,
                   batch>>

\* the requests whose cost is asked for: one that renders, and one for
\* each way the estimate fails
EstimateInputs ==
    {[template_name |-> "meta_description", variables |-> Mapping(TeaVars)],
     [template_name |-> "product_description", variables |-> Mapping(KettleVars)],
     [template_name |-> "weekly_digest", variables |-> Mapping(TeaVars)],
     [template_name |-> "meta_description", variables |-> Mapping([topic |-> "tea"])],
     [template_name |-> "meta_description",
      variables |-> Mapping([topic |-> "tea", keyword |-> " "])],
     [template_name |-> "meta_description",
      variables |-> Mapping([topic |-> "javascript:alert(1)", keyword |-> "tea"])],
     [template_name |-> "meta_description", variables |-> NotAMapping]}

EstimateModels == {"", "gpt-4"}

EncoderAnswers == {EncoderRaises, Encoded(37)}

\* what the provider answers during the generate calls made before an
\* estimate
EstimatePlans ==
    {<<<<Ok>>, <<Ok>>>>,
     <<<<Failure("AuthenticationError")>>, <<OkTie>>>>}

\* generate calls that fill the history, the caches and the statistics,
\* estimates from the orchestrator and from the client, and the clock
NextEstimate ==
    \/ \E uc \in BOOLEAN, plan \in EstimatePlans :
          /\ Budget(1, MaxEstimateCalls)
          /\ Generate(Req("meta_description", Mapping(TeaVars), uc, TRUE), plan)
    \/ \E e \in EstimateInputs, model \in EstimateModels,
          encoded \in EncoderAnswers, tie_up \in BOOLEAN :
             EstimateCostCall(e.template_name, e.variables, model, encoded, tie_up)
    \/ \E text \in {<<"Describe green tea.">>, <<>>}, model \in EstimateModels,
          encoded \in EncoderAnswers, tie_up \in BOOLEAN :
             ClientEstimateCostCall(text, model, encoded, tie_up)
    \/ Tick

SpecEstimate == Init /\ [][NextEstimate]_vars

-----------------------------------------------------------------------------
(* The template store used directly *)

\* PromptTemplate(**fields) followed by engine.register_template(template)
RegisterTemplateCall(fields) ==
    /\ ~batch.active
    /\ \E r \in {IF ValidationText(fields) = <<>>
                 THEN RegisterTemplate(templates, engine, fields)
                 ELSE [templates |-> templates, engine |-> engine]} :
          /\ templates' = r.templates
          /\ engine' = r.engine
    /\ last' = [Obs("register_template") EXCEPT
                   !.raised = IF ValidationText(fields) = <<>> THEN ""
                              ELSE "TemplateValidationError",
                   !.req = fields,
                   !.answer = [was_registered |-> fields.name \in DOMAIN templates]]
    /\ UNCHANGED <<now, nextId, heap, history, appended, stored, cache, cacheStats, recency,
                   totalCost, callbacks, hasManager, client, netCalls, returned,
                   threads, batch>>

\* engine.remove_template(name)
RemoveTemplateCall(name) ==
    /\ ~batch.active
    /\ \E r \in {RemoveTemplate(templates, engine, name)} :
          /\ templates' = r.templates
          /\ engine' = r.engine
          /\ last' = [Obs("remove_template") EXCEPT
                         !.req = [name |-> name],
                         !.answer = [removed |-> r.removed,
                                     was_cached |-> name \in DOMAIN engine.cached,
                                     was_active |-> name \in engine.active]]
    /\ UNCHANGED <<now, nextId, heap, history, appended, stored, cache, cacheStats, recency,
                   totalCost, callbacks, hasManager, client, netCalls, returned,
                   threads, batch>>

\* engine.clone_template(name, new_name, updates)
CloneTemplateCall(name, new_name, updates) ==
    /\ ~batch.active
    /\ \E r \in {CloneTemplate(templates, engine, name, new_name, updates)} :
          /\ templates' = r.templates
          /\ engine' = r.engine
          /\ last' = [Obs("clone_template") EXCEPT
                         !.raised = r.raised,
                         !.req = [name |-> name, new_name |-> new_name,
                                  updates |-> updates],
                         !.answer = [cloned |-> r.cloned]]
    /\ UNCHANGED <<now, nextId, heap, history, appended, stored, cache, cacheStats, recency,
                   totalCost, callbacks, hasManager, client, netCalls, returned,
                   threads, batch>>

\* engine.get_template(name)
GetTemplateCall(name) ==
    /\ ~batch.active
    /\ \E r \in {GetTemplate(templates, engine, name)} :
          /\ engine' = r.engine
          /\ last' = [Obs("get_template") EXCEPT
                         !.raised = r.raised,
                         !.req = [name |-> name],
                         !.answer = [tpl |-> IF r.raised = "" THEN r.tpl ELSE <<>>]]
    /\ UNCHANGED <<now, nextId, heap, history, appended, stored, cache, cacheStats, recency,
                   totalCost, callbacks, hasManager, client, netCalls, returned,
                   templates, threads, batch>>

\* a template of the caller's own
QuickPost ==
    [name |-> "quick_post",
     template |-> <<Lit("Write a quick post about "), Var("topic"), Lit(".")>>,
     system_instructions |-> "You are a helpful assistant.",
     default_tone |-> "professional",
     required_variables |-> <<"topic">>,
     optional_variables |-> <<>>,
     max_tokens_recommendation |-> 500,
     temperature_recommendation |-> 70,
     enabled |-> TRUE]

\* templates offered for registration: a new one, a new body for a built-in
\* name, a disabled one, and one for each rule of the validation
RegisterInputs ==
    {QuickPost,
     [MetaDescription EXCEPT !.template = <<Lit("Describe "), Var("topic"), Lit(" in one line.")>>],
     [QuickPost EXCEPT !.enabled = FALSE],
     [QuickPost EXCEPT !.name = "bad-name"],
     [QuickPost EXCEPT !.name = ""],
     [QuickPost EXCEPT !.name = LONG_NAME_101],
     [QuickPost EXCEPT !.template = <<>>],
     [QuickPost EXCEPT !.template = <<Lit(LONG_10001)>>],
     [QuickPost EXCEPT !.temperature_recommendation = 201],
     [QuickPost EXCEPT !.max_tokens_recommendation = 0]}

EngineNames == {"meta_description", "quick_post", "short_meta"}

\* the updates given to clone_template: none, a tone, a field the template
\* does not have, and a value __post_init__ would refuse
CloneUpdates ==
    {<<>>,
     [default_tone |-> "casual"],
     [audience |-> "students"],
     [temperature_recommendation |-> 500]}

\* registrations, removals, clones and lookups in any order
NextEngine ==
    \/ \E fields \in RegisterInputs : RegisterTemplateCall(fields)
    \/ \E name \in EngineNames : RemoveTemplateCall(name)
    \/ \E name \in {"meta_description", "weekly_digest"},
          new_name \in {"short_meta", "product_description", LONG_NAME_101},
          updates \in CloneUpdates :
             CloneTemplateCall(name, new_name, updates)
    \/ \E name \in {"meta_description", "short_meta"} : GetTemplateCall(name)

SpecEngine == Init /\ [][NextEngine]_vars

\* the rest of the program when only the template store is called
UnchangedButStore ==
    UNCHANGED <<now, nextId, heap, history, appended, stored, cache, cacheStats, recency,
                totalCost, callbacks, hasManager, client, netCalls, returned,
                threads, batch>>

\* engine.enable_template(name)
EnableTemplateCall(name) ==
    /\ ~batch.active
    /\ \E r \in {EnableTemplate(templates, engine, name)} :
          /\ templates' = r.templates
          /\ engine' = r.engine
          /\ last' = [Obs("enable_template") EXCEPT !.req = [name |-> name],
                                                    !.answer = [done |-> r.done]]
    /\ UnchangedButStore

\* engine.disable_template(name)
DisableTemplateCall(name) ==
    /\ ~batch.active
    /\ \E r \in {DisableTemplate(templates, engine, name)} :
          /\ templates' = r.templates
          /\ engine' = r.engine
          /\ last' = [Obs("disable_template") EXCEPT !.req = [name |-> name],
                                                     !.answer = [done |-> r.done]]
    /\ UnchangedButStore

\* engine.load_templates()
LoadTemplatesCall ==
    /\ ~batch.active
    /\ \E r \in {LoadTemplates(templates, engine)} :
          /\ templates' = r.templates
          /\ engine' = r.engine
    /\ last' = Obs("load_templates")
    /\ UnchangedButStore

\* templates offered to the store with the active set in view: a new one,
\* enabled and disabled, and a disabled one under a built-in name
StoreInputs ==
    {QuickPost,
     [QuickPost EXCEPT !.enabled = FALSE],
     [MetaDescription EXCEPT !.enabled = FALSE]}

\* updates of a clone that set the enabled flag, or leave it
StoreUpdates == {<<>>, [enabled |-> FALSE], [enabled |-> TRUE]}

\* every operation of the store, in any order
NextStore ==
    \/ LoadTemplatesCall
    \/ \E fields \in StoreInputs : RegisterTemplateCall(fields)
    \/ \E name \in EngineNames : RemoveTemplateCall(name)
    \/ \E name \in {"meta_description", "quick_post"}, updates \in StoreUpdates :
          CloneTemplateCall(name, "short_meta", updates)
    \/ \E name \in EngineNames : EnableTemplateCall(name)
    \/ \E name \in EngineNames : DisableTemplateCall(name)
    \/ \E name \in EngineNames : GetTemplateCall(name)

SpecStore == Init /\ [][NextStore]_vars

-----------------------------------------------------------------------------
(* generate while templates are registered again under the same name.      *)
(* ContentGenerator.register_template builds the template and hands it to  *)
(* the store; it does not touch the result cache.                          *)

MaxReregisterCalls == 3

\* a built-in name with its own body and with a new one
ReregisterInputs ==
    {MetaDescription,
     [MetaDescription EXCEPT !.template = <<Lit("Describe "), Var("topic"),
                                            Lit(" in one line.")>>]}

ReregisterRequests ==
    {Req("meta_description", Mapping(TeaVars), TRUE, TRUE),
     Req("meta_description", Mapping(TeaVars), FALSE, TRUE)}

NextReregister ==
    \/ \E req \in ReregisterRequests :
          Budget(1, MaxReregisterCalls) /\ Generate(req, <<<<Ok>>, <<Ok>>>>)
    \/ \E fields \in ReregisterInputs : RegisterTemplateCall(fields)
    \/ ClearCache
    \/ Tick

SpecReregister == Init /\ [][NextReregister]_vars

-----------------------------------------------------------------------------
(* generate with the keyword arguments temperature, max_tokens and model   *)

MaxOverrideCalls == 2

\* generator.generate(template_name, variables, use_cache=..., **overrides)
ReqWith(template_name, variables, use_cache, overrides) ==
    [Req(template_name, variables, use_cache, TRUE) EXCEPT !.api_overrides = overrides]

\* the keyword arguments that generate takes out of kwargs
OverrideInputs ==
    {<<>>,
     [temperature |-> 0],
     [temperature |-> 30],
     [max_tokens |-> 50],
     [temperature |-> 120, max_tokens |-> 50],
     [model |-> "gpt-4"]}

CoffeeVars == [topic |-> "coffee", keyword |-> "green tea"]

OverrideRequests ==
    {ReqWith(tv[1], Mapping(tv[2]), uc, o) :
        tv \in {<<"meta_description", TeaVars>>, <<"meta_description", CoffeeVars>>,
                <<"product_description", KettleVars>>},
        uc \in BOOLEAN, o \in OverrideInputs}

\* what the provider answers during the first and the second client call of
\* one generate
OverridePlans ==
    {<<<<Ok>>, <<Ok>>>>,
     <<<<Failure("AuthenticationError")>>, <<Failure("AuthenticationError")>>>>}

\* generate calls with overrides, and the clock
NextOverrides ==
    \/ \E req \in OverrideRequests, plan \in OverridePlans :
          Budget(1, MaxOverrideCalls) /\ Generate(req, plan)
    \/ Tick

SpecOverrides == Init /\ [][NextOverrides]_vars

-----------------------------------------------------------------------------
(* The check of the API key (api_manager.py).  outcome is what             *)
(* self._client.models.list() does: "ok" or the exception it raises.       *)

API_KEY_VALIDATION_CACHE_TTL == 3600
KeyTickSeconds == 1800

\* a check that takes any failure as proof that the key is invalid
ValidateApiKeyReclassifies(cl, t, force_check, outcome) ==
    IF /\ ~force_check
       /\ cl.api_key_valid # <<>>
       /\ cl.api_key_validated_at # <<>>
       /\ t - cl.api_key_validated_at[1] < API_KEY_VALIDATION_CACHE_TTL
    THEN [client |-> cl, ret |-> cl.api_key_valid[1], remote |-> 0]
    ELSE [client |-> [cl EXCEPT !.api_key_valid = <<outcome = "ok">>,
                                !.api_key_validated_at = <<t>>],
          ret |-> outcome = "ok", remote |-> 1]

\* OpenAIManager.validate_api_key(force_check): the client afterwards, the
\* value returned and the number of remote calls made
ValidateApiKey(cl, t, force_check, outcome) ==
    IF /\ ~force_check
       /\ cl.api_key_valid # <<>>
       /\ cl.api_key_validated_at # <<>>
       /\ t - cl.api_key_validated_at[1] < API_KEY_VALIDATION_CACHE_TTL
    THEN [client |-> cl, ret |-> cl.api_key_valid[1], remote |-> 0]
    ELSE IF outcome = "ok"
    THEN [client |-> [cl EXCEPT !.api_key_valid = <<TRUE>>,
                                !.api_key_validated_at = <<t>>],
          ret |-> TRUE, remote |-> 1]
    ELSE IF outcome = "AuthenticationError"
    THEN [client |-> [cl EXCEPT !.api_key_valid = <<FALSE>>,
                                !.api_key_validated_at = <<t>>],
          ret |-> FALSE, remote |-> 1]
    ELSE [client |-> cl, ret |-> FALSE, remote |-> 1]

\* manager.validate_api_key(force_check)
ValidateApiKeyCall(force_check, outcome) ==
    /\ ~batch.active
    /\ hasManager
    /\ \E r \in {ValidateApiKey(client, now, force_check, outcome)} :
          /\ client' = r.client
          /\ last' = [Obs("validate_api_key") EXCEPT
                         !.net = r.remote,
                         !.req = [force_check |-> force_check],
                         !.asked = <<outcome>>,
                         !.answer = [ret |-> r.ret]]
    /\ UNCHANGED <<now, nextId, heap, history, appended, stored, cache, cacheStats, recency,
                   totalCost, callbacks, hasManager, netCalls, returned, templates,
                   engine, threads, batch>>

\* time passes
Advance(seconds) ==
    /\ ~batch.active
    /\ now + seconds <= MaxTicks * TickSeconds
    /\ now' = now + seconds
    /\ last' = Obs("tick")
    /\ UNCHANGED <<nextId, heap, history, appended, stored, cache, cacheStats, recency,
                   totalCost, callbacks, hasManager, client, netCalls, returned,
                   templates, engine, threads, batch>>

\* checks of the key, forced and not, while time passes
NextKey ==
    \/ \E force_check \in BOOLEAN,
          outcome \in {"ok", "AuthenticationError", "APIConnectionError", "RateLimitError"} :
             ValidateApiKeyCall(force_check, outcome)
    \/ Advance(KeyTickSeconds)

SpecKey == Init /\ [][NextKey]_vars

-----------------------------------------------------------------------------
(* The client called from several threads (api_manager.py): calls of       *)
(* generate_content that run at the same time, as _generate_batch_parallel *)
(* starts them on the executor's threads.  Each action is one stretch of   *)
(* generate_content between two acquisitions of self._lock.  A thread that *)
(* finds an answer in the response cache keeps a reference to the cached   *)
(* APIResponse after it has released the lock, so in this section the      *)
(* cached APIResponse objects live in the heap and a cache entry holds a   *)
(* reference.                                                              *)

MaxClientThreads == 3

\* a call of generate_content that has not started yet
ClientFrame(prompt, use_cache, outs) ==
    [pc |-> "begin", prompt |-> prompt, use_cache |-> use_cache, outs |-> outs,
     request_id |-> 0, timestamp |-> 0, cached |-> None, response |-> <<>>,
     served |-> "", net |-> 0, holds |-> FALSE]

\* thread i has run one stretch: the client, the heap and the requests
\* sent so far afterwards, and the thread's frame
ClientThreadStep(i, cl, hp, net, fr) ==
    /\ ~batch.active
    /\ client' = cl
    /\ heap' = hp
    /\ netCalls' = net
    /\ threads' = [threads EXCEPT ![i] = fr]
    /\ last' = Obs("client_thread")
    /\ UNCHANGED <<now, nextId, history, appended, stored, cache, cacheStats, recency,
                   totalCost, callbacks, hasManager, returned, templates, engine, batch>>

\* a thread calls generate_content(prompt, use_cache=use_cache)
ClientSubmit(prompt, use_cache, outs) ==
    /\ hasManager
    /\ Len(threads) < MaxClientThreads
    /\ threads' = Append(threads, ClientFrame(prompt, use_cache, outs))
    /\ last' = Obs("client_thread")
    /\ UNCHANGED <<now, nextId, heap, history, appended, stored, cache, cacheStats, recency,
                   totalCost, callbacks, hasManager, client, netCalls, returned, templates,
                   engine, batch>>

\* _generate_request_id under the lock, the timestamp and the check of the
\* prompt, which raises InvalidPromptError
ClientEnter(i) ==
    /\ threads[i].pc = "begin"
    /\ LET f == threads[i]
           request_id == client.request_counter + 1
           f1 == [f EXCEPT !.request_id = request_id, !.timestamp = now]
       IN ClientThreadStep(i, [client EXCEPT !.request_counter = request_id], heap, netCalls,
             IF BlankPrompt(f.prompt)
             THEN [f1 EXCEPT !.pc = "raised", !.served = "invalid"]
             ELSE [f1 EXCEPT !.pc = IF f.use_cache THEN "check" ELSE "call"])

\* _check_cache under the lock: an unexpired entry gives its APIResponse,
\* an expired one is deleted
ClientCheckCache(i) ==
    /\ threads[i].pc = "check"
    /\ LET f == threads[i]
           key == ClientKey(f.prompt, "", client.model)
           present == key \in DOMAIN client.cache
           hit == present /\ ~ClientExpired(client.cache[key], now)
       IN ClientThreadStep(i,
             IF present /\ ~hit
             THEN [client EXCEPT !.cache = [k \in DOMAIN client.cache \ {key} |->
                                               client.cache[k]]]
             ELSE client,
             heap, netCalls,
             IF hit
             THEN [f EXCEPT !.pc = "hit", !.cached = client.cache[key].response]
             ELSE [f EXCEPT !.pc = "call"])

\* cached.request_id = request_id; cached.timestamp = timestamp, on the
\* object that the cache may still hold, with no lock held
ClientHitRefresh(i) ==
    /\ threads[i].pc = "hit"
    /\ LET f == threads[i]
       IN ClientThreadStep(i, client,
             [heap EXCEPT ![f.cached] = [@ EXCEPT !.request_id = f.request_id,
                                                  !.timestamp = f.timestamp]],
             netCalls, [f EXCEPT !.pc = "hit_return"])

\* return cached.to_dict()
ClientHitReturn(i) ==
    /\ threads[i].pc = "hit_return"
    /\ LET f == threads[i]
       IN ClientThreadStep(i, client, heap, netCalls,
             [f EXCEPT !.pc = "done", !.served = "cache", !.response = heap[f.cached]])

\* _make_api_call with its retries, and the APIResponse built from the
\* answer or from the exception caught
ClientSend(i) ==
    /\ threads[i].pc = "call"
    /\ LET f == threads[i]
           call == RetryWithBackoff(f.outs, 1, BASE_RETRY_DELAY, <<>>)
           o == call.response
           ok == [success |-> TRUE, content |-> o.content, model |-> client.model,
                  tokens_used |-> [prompt |-> o.prompt_tokens,
                                   completion |-> o.completion_tokens,
                                   total |-> o.total_tokens],
                  cost |-> CalculateCost(client.model, o.prompt_tokens,
                                         o.completion_tokens, o.tie_up),
                  timestamp |-> f.timestamp, request_id |-> f.request_id,
                  finish_reason |-> "stop", error |-> <<>>]
           failed == FailedResponse(f.timestamp, f.request_id, ExceptionText(call.raised))
       IN ClientThreadStep(i, client, heap, netCalls + call.attempts,
             [f EXCEPT !.pc = "stats", !.net = call.attempts,
                       !.response = IF call.raised = "" THEN ok ELSE failed])

\* _update_stats(response) under the lock
ClientUpdateStats(i) ==
    /\ threads[i].pc = "stats"
    /\ LET f == threads[i]
       IN ClientThreadStep(i, [client EXCEPT !.stats = UpdateStats(@, f.response)],
             heap, netCalls,
             [f EXCEPT !.served = "network",
                       !.pc = IF f.response.success /\ f.use_cache THEN "store" ELSE "done"])

\* _store_cache(cache_key, response) under the lock
ClientStoreCache(i) ==
    /\ threads[i].pc = "store"
    /\ LET f == threads[i]
           key == ClientKey(f.prompt, "", client.model)
           entry == [response |-> Len(heap) + 1, created_at |-> now,
                     ttl_seconds |-> CLIENT_CACHE_TTL_SECONDS]
       IN ClientThreadStep(i, [client EXCEPT !.cache = Put(@, key, entry)],
             Append(heap, f.response), netCalls, [f EXCEPT !.pc = "done"])

OkLong == Outcome("ok", "Fresh tea daily.", 300, 75, FALSE)

\* the calls the threads make: the same prompt with and without the cache,
\* answered at once, after a retry, or never, and a blank prompt
ClientThreadCalls ==
    {ClientFrame(<<"Describe green tea.">>, TRUE, <<Ok, Ok, Ok>>),
     ClientFrame(<<"Describe green tea.">>, TRUE,
                 <<Failure("AuthenticationError"), Ok, Ok>>),
     ClientFrame(<<"Describe green tea.">>, FALSE,
                 <<Failure("RateLimitError"), OkLong, Ok>>),
     ClientFrame(<<"   ">>, TRUE, <<Ok, Ok, Ok>>)}

\* calls of generate_content on up to MaxClientThreads threads, interleaved
\* wherever no lock is held
NextThreads ==
    \/ \E c \in ClientThreadCalls : ClientSubmit(c.prompt, c.use_cache, c.outs)
    \/ \E i \in DOMAIN threads : ClientEnter(i)
    \/ \E i \in DOMAIN threads : ClientCheckCache(i)
    \/ \E i \in DOMAIN threads : ClientHitRefresh(i)
    \/ \E i \in DOMAIN threads : ClientHitReturn(i)
    \/ \E i \in DOMAIN threads : ClientSend(i)
    \/ \E i \in DOMAIN threads : ClientUpdateStats(i)
    \/ \E i \in DOMAIN threads : ClientStoreCache(i)

SpecThreads == Init /\ [][NextThreads]_vars

-----------------------------------------------------------------------------
(* The parallel batches and their pools.  The orchestrator submits every   *)
(* entry to a ThreadPoolExecutor(max_workers=3) (content_generator.py).    *)
(* The client makes one asyncio task per prompt; a task enters             *)
(* asyncio.Semaphore(MAX_CONCURRENT_REQUESTS), hands generate_content to   *)
(* the loop's executor, and leaves the semaphore when the loop resumes it  *)
(* after the call has ended (api_manager.py).                              *)

MaxPool == 4

\* the frames of one client batch
ClientBatchFrames(prompts) ==
    [i \in DOMAIN prompts |->
        [ClientFrame(prompts[i], TRUE, <<Ok, Ok, Ok>>) EXCEPT !.pc = "waiting"]]

\* no call of an earlier batch is still going on
ThreadsIdle ==
    \A i \in DOMAIN threads : threads[i].pc \in {"done", "raised", "abandoned"}

\* manager.generate_batch(prompts, parallel=True) up to the creation of the
\* tasks
ClientBatchStart(prompts) ==
    /\ hasManager
    /\ ~batch.active
    /\ ThreadsIdle
    /\ prompts # <<>>
    /\ threads' = ClientBatchFrames(prompts)
    /\ last' = Obs("client_batch_started")
    /\ UNCHANGED <<program, returned, batch>>

\* the tasks inside 'async with semaphore'
Holders == {i \in DOMAIN threads : threads[i].holds}

\* a task enters the semaphore and hands its call to the executor
ClientAcquire(i) ==
    /\ ~batch.active
    /\ threads[i].pc = "waiting"
    /\ \A j \in 1..(i - 1) : threads[j].pc # "waiting"
    /\ Cardinality(Holders) < MAX_CONCURRENT_REQUESTS
    /\ threads' = [threads EXCEPT ![i] = [@ EXCEPT !.pc = "begin", !.holds = TRUE]]
    /\ last' = Obs("client_thread")
    /\ UNCHANGED <<program, returned, batch>>

\* the loop resumes a task whose call has returned or raised: the task
\* leaves the semaphore
ClientRelease(i) ==
    /\ ~batch.active
    /\ threads[i].pc \in {"done", "raised"}
    /\ threads[i].holds
    /\ threads' = [threads EXCEPT ![i] = [@ EXCEPT !.holds = FALSE]]
    /\ last' = Obs("client_thread")
    /\ UNCHANGED <<program, returned, batch>>

\* gather has every result: generate_batch returns the list
ClientBatchReturn ==
    /\ ~batch.active
    /\ threads # <<>>
    /\ \A i \in DOMAIN threads : threads[i].pc = "done" /\ ~threads[i].holds
    /\ threads' = <<>>
    /\ last' = [Obs("client_batch") EXCEPT
                   !.rets = [i \in DOMAIN threads |-> threads[i].response]]
    /\ UNCHANGED <<program, returned, batch>>

\* gather passes on the first exception: run_until_complete raises and the
\* loop stops, so the tasks still waiting for the semaphore never run; the
\* calls already on executor threads go on
ClientBatchRaise ==
    /\ ~batch.active
    /\ \E i \in DOMAIN threads : threads[i].pc = "raised" /\ ~threads[i].holds
    /\ \E i \in DOMAIN threads : threads[i].pc \notin {"done", "raised", "abandoned"}
    /\ threads' = [i \in DOMAIN threads |->
                      IF threads[i].pc = "waiting"
                      THEN [threads[i] EXCEPT !.pc = "abandoned"]
                      ELSE threads[i]]
    /\ last' = [Obs("client_batch") EXCEPT !.raised = "InvalidPromptError"]
    /\ UNCHANGED <<program, returned, batch>>

\* a batch of MaxPool entries for the orchestrator; batches of MaxPool
\* prompts for the client, one of them with a blank prompt
PoolRequests == [i \in 1..MaxPool |-> TeaEntry]

PoolPrompts ==
    {[i \in 1..MaxPool |-> <<"Describe green tea.">>],
     [i \in 1..MaxPool |-> IF i = 2 THEN <<"   ">> ELSE <<"Describe green tea.">>]}

\* nothing has been called yet
Untouched == nextId = 1 /\ client.request_counter = 0 /\ threads = <<>>

\* one parallel batch, of the orchestrator or of the client
NextPool ==
    \/ Untouched /\ BatchStart(PoolRequests)
    \/ \E i \in DOMAIN threads : WorkerStart(i)
    \/ \E i \in DOMAIN threads : WorkerStep(i)
    \/ \E i \in DOMAIN threads : WorkerCall(i, <<<<Ok>>>>)
    \/ \E i \in DOMAIN threads : Collect(i)
    \/ BatchReturn
    \/ \E prompts \in PoolPrompts :
          Untouched /\ ClientBatchStart(prompts)
    \/ \E i \in DOMAIN threads : ClientAcquire(i)
    \/ \E i \in DOMAIN threads : ClientEnter(i)
    \/ \E i \in DOMAIN threads : ClientCheckCache(i)
    \/ \E i \in DOMAIN threads : ClientHitRefresh(i)
    \/ \E i \in DOMAIN threads : ClientHitReturn(i)
    \/ \E i \in DOMAIN threads : ClientSend(i)
    \/ \E i \in DOMAIN threads : ClientUpdateStats(i)
    \/ \E i \in DOMAIN threads : ClientStoreCache(i)
    \/ \E i \in DOMAIN threads : ClientRelease(i)
    \/ ClientBatchReturn
    \/ ClientBatchRaise

SpecPool == Init /\ [][NextPool]_vars

-----------------------------------------------------------------------------
(* The dispatch of the callbacks, one iteration of the for loop at a time. *)
(* _invoke_callbacks iterates over self._callbacks itself, not over a copy *)
(* and with no lock held: the list iterator keeps an index into the live   *)
(* list and stops when the index reaches the length the list has then.     *)
(* The frame of the dispatch is threads[1].                                 *)

MaxDispatchCallbacks == 3
MaxDispatches == 1     \* generations whose dispatch is followed in one behaviour

\* a callback that leaves the list alone, and callbacks that change it
\* when they are called: one that unregisters itself, one that
\* unregisters cb_log
DispatchCallbacks == {"cb_log", "cb_once", "cb_drop_log"}

Dispatching == threads # <<>> /\ threads[1].pc = "dispatch"

\* what calling cb does to the callback list
CallbackEffect(cbs, cb) ==
    CASE cb = "cb_once" -> RemoveFirst(cbs, "cb_once")
      [] cb = "cb_drop_log" -> RemoveFirst(cbs, "cb_log")
      [] OTHER -> cbs

\* the callbacks that calling cb takes off the list
CallbackRemoves(cbs, cb) ==
    CASE cb = "cb_once" -> {"cb_once"}
      [] cb = "cb_drop_log" /\ (\E i \in DOMAIN cbs : cbs[i] = "cb_log") -> {"cb_log"}
      [] OTHER -> {}

UnchangedButCallbacks ==
    UNCHANGED <<now, heap, history, appended, stored, cache, cacheStats, recency,
                totalCost, hasManager, client, netCalls, returned, templates, engine,
                batch>>

\* a generation, which has taken its request id, reaches
\* self._invoke_callbacks(result)
DispatchStart ==
    /\ ~batch.active
    /\ threads = <<>>
    /\ Budget(1, MaxDispatches)
    /\ nextId' = nextId + 1
    /\ threads' = <<[pc |-> "dispatch", index |-> 0, invoked |-> <<>>,
                     start |-> callbacks, touched |-> {}]>>
    /\ UNCHANGED <<callbacks, last>>
    /\ UnchangedButCallbacks

\* the list that the for loop iterates over
IteratedList(f) == callbacks

\* one iteration: the iterator hands out the element at its index if the
\* list still has one there, and the callback runs
DispatchNext ==
    /\ Dispatching
    /\ LET f == threads[1]
           cbs == IteratedList(f)
       IN /\ f.index < Len(cbs)
          /\ LET cb == cbs[f.index + 1]
             IN /\ callbacks' = CallbackEffect(callbacks, cb)
                /\ threads' = <<[f EXCEPT !.index = @ + 1,
                                          !.invoked = Append(@, cb),
                                          !.touched = @ \cup CallbackRemoves(callbacks, cb)]>>
    /\ UNCHANGED last
    /\ UNCHANGED nextId
    /\ UnchangedButCallbacks

\* the iterator is exhausted: _invoke_callbacks returns
DispatchEnd ==
    /\ Dispatching
    /\ threads[1].index >= Len(IteratedList(threads[1]))
    /\ last' = [Obs("invoke_callbacks") EXCEPT !.invoked = threads[1].invoked,
                                               !.callbacks = threads[1].start,
                                               !.answer = [touched |-> threads[1].touched]]
    /\ threads' = <<>>
    /\ UNCHANGED callbacks
    /\ UNCHANGED nextId
    /\ UnchangedButCallbacks

\* another thread calls register_callback while the loop runs
DispatchRegister(cb) ==
    /\ Dispatching
    /\ Len(callbacks) < MaxDispatchCallbacks
    /\ callbacks' = Append(callbacks, cb)
    /\ threads' = <<[threads[1] EXCEPT !.touched = @ \cup {cb}]>>
    /\ UNCHANGED last
    /\ UNCHANGED nextId
    /\ UnchangedButCallbacks

\* another thread calls unregister_callback while the loop runs
DispatchUnregister(cb) ==
    /\ Dispatching
    /\ \E i \in DOMAIN callbacks : callbacks[i] = cb
    /\ callbacks' = RemoveFirst(callbacks, cb)
    /\ threads' = <<[threads[1] EXCEPT !.touched = @ \cup {cb}]>>
    /\ UNCHANGED last
    /\ UNCHANGED nextId
    /\ UnchangedButCallbacks

\* the callback list between dispatches and during them
NextDispatch ==
    \/ \E cb \in DispatchCallbacks : threads = <<>> /\ RegisterCallback(cb)
    \/ \E cb \in DispatchCallbacks : threads = <<>> /\ UnregisterCallback(cb)
    \/ DispatchStart
    \/ DispatchNext
    \/ DispatchEnd
    \/ \E cb \in DispatchCallbacks : DispatchRegister(cb)
    \/ \E cb \in DispatchCallbacks : DispatchUnregister(cb)

SpecDispatch == Init /\ [][NextDispatch]_vars

-----------------------------------------------------------------------------
(* The locks.  Each component has one lock: the orchestrator               *)
(* (ContentGenerator._lock), the result cache (LRUCache._lock), the client *)
(* (OpenAIManager._lock) and the template store (PromptEngine._lock).  An  *)
(* operation is the sequence of acquisitions and releases that its code    *)
(* makes, in order; everything between them is left out.                   *)

MaxLockThreads == 2

Acquire(lock) == [do |-> "acquire", lock |-> lock]
Release(lock) == [do |-> "release", lock |-> lock]

\* 'with self._lock:' around code that calls no other component
Region(lock) == <<Acquire(lock), Release(lock)>>

\* prompt_engine.get_template(template_name)
LookupPath == Region("template_store")

\* self._cache.get(cache_key)
CacheGetPath == Region("result_cache")

\* self._add_to_history(result)
HistoryPath == Region("orchestrator")

\* one generate_content call that stores its answer: the request id, the
\* cache check, the statistics and the cache store
ClientPath == Region("client") \o Region("client") \o Region("client") \o Region("client")

\* one generate_content call that fails: no cache store
ClientFailedPath == Region("client") \o Region("client") \o Region("client")

\* the end of a successful generate with the orchestrator's lock kept
\* while the result is cached and recorded
RecordPathNested ==
    <<Acquire("orchestrator"), Acquire("result_cache"), Release("result_cache"),
      Release("orchestrator")>>

\* the end of a successful generate: the total cost, the cache write, the
\* history
RecordPath == Region("orchestrator") \o Region("result_cache") \o Region("orchestrator")

\* the locks each operation takes, in order
LockPaths ==
    [generate |-> LookupPath \o CacheGetPath \o ClientPath \o RecordPath,
     generate_hit |-> LookupPath \o CacheGetPath \o HistoryPath,
     generate_failed |-> LookupPath \o CacheGetPath \o ClientFailedPath
                            \o ClientFailedPath \o HistoryPath,
     generate_rejected |-> HistoryPath,
     get_statistics |-> Region("orchestrator"),
     clear_cache |-> Region("result_cache"),
     get_usage_statistics |-> Region("client"),
     register_template |-> Region("template_store")]

\* the locks thread i holds
HeldBy(i) ==
    LET f == threads[i]
        acquired(l) == Cardinality({k \in 1..(f.pos - 1) :
                                       f.path[k] = Acquire(l)})
        released(l) == Cardinality({k \in 1..(f.pos - 1) :
                                       f.path[k] = Release(l)})
    IN {l \in {"orchestrator", "result_cache", "client", "template_store"} :
           acquired(l) > released(l)}

\* a thread starts an operation
LockSubmit(op) ==
    /\ Len(threads) < MaxLockThreads
    /\ threads' = Append(threads, [op |-> op, path |-> LockPaths[op], pos |-> 1])
    /\ last' = Obs("lock_step")
    /\ UNCHANGED <<program, returned, batch>>

\* thread i acquires the next lock of its operation, which no other thread
\* holds (the locks are re-entrant only for the thread that holds them)
LockAcquire(i) ==
    /\ i \in DOMAIN threads
    /\ threads[i].pos <= Len(threads[i].path)
    /\ threads[i].path[threads[i].pos].do = "acquire"
    /\ \A j \in DOMAIN threads \ {i} : threads[i].path[threads[i].pos].lock \notin HeldBy(j)
    /\ threads' = [threads EXCEPT ![i].pos = @ + 1]
    /\ last' = Obs("lock_step")
    /\ UNCHANGED <<program, returned, batch>>

\* thread i leaves a locked region
LockRelease(i) ==
    /\ i \in DOMAIN threads
    /\ threads[i].pos <= Len(threads[i].path)
    /\ threads[i].path[threads[i].pos].do = "release"
    /\ threads' = [threads EXCEPT ![i].pos = @ + 1]
    /\ last' = Obs("lock_step")
    /\ UNCHANGED <<program, returned, batch>>

NextLocks ==
    \/ \E op \in DOMAIN LockPaths : LockSubmit(op)
    \/ \E i \in 1..MaxLockThreads : LockAcquire(i)
    \/ \E i \in 1..MaxLockThreads : LockRelease(i)

\* every thread that can run does run: the interpreter schedules every
\* thread that is not waiting for a lock
SpecLocks ==
    /\ Init
    /\ [][NextLocks]_vars
    /\ \A i \in 1..MaxLockThreads : WF_vars(LockAcquire(i) \/ LockRelease(i))

\* C34: every generate call ends, with a record or an exception, after at
\* most two client invocations of at most three requests each, six requests
\* in all; the sleeps of one invocation are the base delay and then the base
\* delay times the multiplier, one between two requests and none after the
\* last request.
BackoffDelays == <<BASE_RETRY_DELAY, BASE_RETRY_DELAY * RETRY_BACKOFF_MULTIPLIER>>

C34_BoundedGenerate ==
    last.op = "generate" =>
       /\ last.rets # <<>> \/ last.raised # ""
       /\ last.net <= 6
       /\ last.client_calls <= 2
       /\ \A c \in Range(last.calls) :
             /\ Len(c.tried) <= 2
             /\ SeqSum(c.tried, LAMBDA v : v.net) <= 6
             /\ \A k \in DOMAIN c.tried :
                   LET v == c.tried[k]
                   IN /\ v.net <= 3
                      /\ Len(v.sleeps) <= 2
                      /\ v.sleeps = SubSeq(BackoffDelays, 1, Len(v.sleeps))
                      /\ Len(v.sleeps) = IF v.net = 0 THEN 0 ELSE v.net - 1

C34_Witness ==
    /\ last.op = "generate"
    /\ last.rets # <<>>
    /\ last.net = 6
    /\ \E c \in Range(last.calls) :
          /\ Len(c.tried) = 2
          /\ \A k \in 1..2 : c.tried[k].net = 3 /\ c.tried[k].sleeps = <<2, 4>>

\* C35: while and after the requests of a parallel batch run, no two
\* entries of the history carry the same request id, no two records that
\* generate calls have returned carry the same request id, and no two
\* responses that the client's parallel batch returns carry the same
\* request id.
HistoryIdsDistinct ==
    \A i, j \in DOMAIN history : i < j => history[i].request_id # history[j].request_id

ReturnedIdsDistinct ==
    \A i, j \in DOMAIN returned :
       i < j => heap[returned[i]].request_id # heap[returned[j]].request_id

ClientIdsDistinct ==
    last.op = "client_batch" =>
       \A i, j \in DOMAIN last.rets :
          i < j => last.rets[i].request_id # last.rets[j].request_id

C35_ConcurrentIdsDistinct ==
    HistoryIdsDistinct /\ ReturnedIdsDistinct /\ ClientIdsDistinct

\* C36: when a dispatch has ended, every callback that was on the list when
\* it started and that nobody registered or unregistered while it ran was
\* called as many times as it was on the list: none skipped, none called
\* twice.
Occurrences(s, x) == Cardinality({i \in DOMAIN s : s[i] = x})

StayedRegistered == Range(last.callbacks) \ last.answer.touched

C36_DispatchCallsEachOnce ==
    last.op = "invoke_callbacks" =>
       \A cb \in StayedRegistered :
          Occurrences(last.invoked, cb) = Occurrences(last.callbacks, cb)

\* C37: after every operation of the store, the active set is exactly the
\* set of registered names whose stored template is enabled, and so a
\* subset of the registered names.
C37_ActiveIsEnabled ==
    /\ engine.active = {n \in DOMAIN templates : templates[n].enabled}
    /\ engine.active \subseteq DOMAIN templates

\* C37 witness: a built-in template has just been disabled while a clone
\* made with enabled=false and a template registered as disabled are in
\* the store, and a template is active
C37_Witness ==
    /\ last.op = "disable_template" /\ last.answer.done
    /\ last.req.name = "meta_description"
    /\ "short_meta" \in DOMAIN templates /\ ~templates["short_meta"].enabled
    /\ "quick_post" \in DOMAIN templates /\ templates["quick_post"].enabled
    /\ engine.active = {"product_description", "quick_post"}

\* C38: get_template(name) returns the fields, enabled among them, that
\* the template stored under name has at that moment.
C38_LookupIsCurrent ==
    last.op = "get_template" /\ last.raised = "" =>
       last.answer.tpl = to_dict(templates[last.req.name])

\* C39: a generate call answered from the result cache is answered with a
\* result that was generated from the prompt which the template now
\* registered under that name gives for the call's variables.
C39_HitFromCurrentBody ==
    last.op = "generate" /\ last.path = "hit" =>
       \E e \in stored : e.ident = Ident(last.req) /\ e.prompt = last.prompt

-----------------------------------------------------------------------------
(* Properties *)

\* the record that the most recent generate call returned
LastRecord == heap[last.rets[1]]

GenerateReturned == last.op = "generate" /\ last.raised = ""

\* C1 (as the code has it): a generate call with use_cache=true that
\* repeats an earlier successful one within the TTL, with no clear_cache in
\* between, returns cached=true and reaches neither the client nor the
\* network.  The first such call after clear_cache() is not served from the
\* result cache and invokes the client again; it causes a network request
\* exactly when the client's own response cache holds no unexpired answer
\* for the prompt.
C1_CacheThenClear ==
    GenerateReturned /\ last.req.use_cache =>
        /\ last.fresh =>
              LastRecord.cached /\ last.net = 0 /\ last.client_calls = 0
        /\ last.after_clear =>
              /\ ~LastRecord.cached
              /\ last.client_calls >= 1
              /\ (last.net = 0) <=> last.client_had

\* C1 witness: a call repeated after clear_cache() that the client answered
\* from its response cache, in a run that also had a result-cache hit
C1_Witness ==
    /\ GenerateReturned /\ last.req.use_cache
    /\ last.after_clear /\ last.client_had /\ last.net = 0
    /\ LastRecord.success
    /\ \E i \in DOMAIN history : history[i].cached

\* C1 (as stated): ... and after clear_cache() the same call causes a
\* network call again.
C1_AsStated ==
    GenerateReturned /\ last.req.use_cache =>
        /\ last.fresh =>
              LastRecord.cached /\ last.net = 0 /\ last.client_calls = 0
        /\ last.after_clear => last.net >= 1

\* C8: the record returned on a cache hit is a clone: the payloads held by
\* the result cache stay as they were stored (cached=false), and all the
\* records returned so far carry pairwise distinct request ids.
C8_HitReturnsClone ==
    /\ \A k \in DOMAIN cache : ~heap[cache[k].data].cached
    /\ \A i, j \in DOMAIN returned :
          i < j => heap[returned[i]].request_id # heap[returned[j]].request_id

\* the sum of the values of a dict
RECURSIVE SumValues(_)
SumValues(d) ==
    IF DOMAIN d = {} THEN 0
    ELSE LET k == CHOOSE x \in DOMAIN d : TRUE
         IN d[k] + SumValues([x \in DOMAIN d \ {k} |-> d[x]])

SuccessfulCost(h) == IF h.success THEN h.cost ELSE 0

\* C7: the total_cost that get_statistics reports is the sum of the cost
\* fields of the successful entries now in the history, is not negative,
\* and is the sum of the cost_by_template values.
C7_TotalCostAdditive ==
    last.op = "get_statistics" =>
        /\ last.stats.total_cost = SeqSum(history, SuccessfulCost)
        /\ last.stats.total_cost >= 0
        /\ last.stats.total_cost = SumValues(last.stats.cost_by_template)

\* C7 witness: statistics read over a history holding a paid generation, a
\* replay from the cache and a failure
C7_Witness ==
    /\ last.op = "get_statistics"
    /\ last.stats.total_cost > 0
    /\ \E i \in DOMAIN history : history[i].success /\ ~history[i].cached
    /\ \E i \in DOMAIN history : history[i].success /\ history[i].cached
    /\ \E i \in DOMAIN history : ~history[i].success

\* C9: after every generation, successful or failed, cached or not, every
\* callback registered at that moment has been invoked exactly once, in
\* registration order.
C9_CallbacksAfterEveryGeneration ==
    GenerateReturned => last.invoked = last.callbacks

\* the callback list with every raising callback replaced by one that
\* returns normally
Quiet(cbs) ==
    [i \in DOMAIN cbs |-> IF cbs[i] \in RaisingCallbacks THEN "cb_log" ELSE cbs[i]]

\* two generate calls ended alike, up to which callbacks raised
SameOutcome(a, b) ==
    /\ a.f.raised = b.f.raised
    /\ a.f.pc = b.f.pc
    /\ Quiet(a.f.invoked) = b.f.invoked
    /\ a.f.ret = b.f.ret
    /\ a.S.heap = b.S.heap
    /\ a.S.history = b.S.history
    /\ a.S.cache = b.S.cache

\* C10: a callback that raises is caught.  Whatever generate call comes
\* next, it ends as it would with callbacks that do not raise: the same
\* exception or none leaves generate, the same callbacks have been
\* dispatched to, and the returned record, the history and the result
\* cache with its payloads are the same.
C10_RaisingCallbackHarmless ==
    \A req \in GenerateInputs, plan \in Plans :
        SameOutcome(RunGenerate(State, NewFrame(req), plan),
                    RunGenerate([State EXCEPT !.callbacks = Quiet(callbacks)],
                                NewFrame(req), plan))

\* C10 witness: a successful generation during which a raising callback
\* was dispatched to and the callback registered after it was still called
C10_Witness ==
    /\ GenerateReturned
    /\ last.path = "success"
    /\ last.callbacks = <<"cb_raise", "cb_log">>
    /\ last.invoked = <<"cb_raise", "cb_log">>
    /\ LastRecord.success /\ ~Has(LastRecord, "error")
    /\ history[Len(history)] = LastRecord

\* C2: generate, generate_batch and generate_multiple_variations return
\* records for every input and never raise to the caller.
C2_NeverRaises ==
    last.op \in {"generate", "generate_batch", "generate_multiple_variations"} =>
        last.raised = ""

\* a message that is not the empty string
NonEmptyText(parts) == \E i \in DOMAIN parts : parts[i] # ""

\* success=false exactly when an error is present, the error is not empty,
\* and a failed record has no content
WellFormedRecord(r) ==
    /\ ~r.success <=> Has(r, "error")
    /\ Has(r, "error") => NonEmptyText(r.error)
    /\ ~r.success /\ Has(r, "content") => r.content = ""

\* C3: every record returned by generate or by generate_batch, sequential
\* or parallel, and every history entry, has success=false iff it has an
\* error, a non-empty one, and has empty content when it failed.
C3_FailedRecordsWellFormed ==
    /\ \A i \in DOMAIN returned : WellFormedRecord(heap[returned[i]])
    /\ \A i \in DOMAIN history : WellFormedRecord(history[i])
    /\ \A i \in DOMAIN threads :
          threads[i].pc = "done" => WellFormedRecord(heap[threads[i].ret])

\* C3 witness: a parallel batch has returned a successful and a failed
\* record, and both are in the history
C3_Witness ==
    /\ last.op = "generate_batch" /\ last.parallel /\ hasManager
    /\ Len(last.rets) = 2
    /\ last.rets[1] # None /\ last.rets[2] # None
    /\ heap[last.rets[1]].success /\ heap[last.rets[1]].content # ""
    /\ ~heap[last.rets[2]].success
    /\ \E i \in DOMAIN history : history[i].success
    /\ \E i \in DOMAIN history : ~history[i].success

\* the history entries appended since the observed call began
NewEntries == (last.appended_before + 1)..Len(appended)

\* C5: each generate call appends exactly one history entry, carrying the
\* request id of the record it returns; each entry of a batch, malformed
\* ones included, is one such attempt.
C5_EveryAttemptRecorded ==
    /\ GenerateReturned =>
          /\ Len(appended) = last.appended_before + 1
          /\ appended[Len(appended)].request_id = LastRecord.request_id
    /\ last.op = "generate_batch" /\ last.raised = "" =>
          /\ Len(appended) = last.appended_before + Len(last.requests)
          /\ \A i \in DOMAIN last.rets :
                last.rets[i] # None =>
                   \E j \in NewEntries :
                      appended[j].request_id = heap[last.rets[i]].request_id

\* the record r answers entry i (1-based) of the batch
AnswersEntry(r, req, i) ==
    IF req.is_dict /\ Has(req.body, "template_name") /\ req.body.template_name # ""
    THEN /\ Has(r, "template_used")
         /\ r.template_used = req.body.template_name
         /\ r.variables = IF Has(req.body, "variables")
                          THEN req.body.variables.items ELSE <<>>
    ELSE ~r.success /\ r.error[2] = ToString(i - 1)

\* C6: generate_batch(requests, parallel=true) returns a list as long as
\* requests whose i-th element is the record of the i-th request; no
\* position is left empty.
C6_ParallelBatchPositions ==
    last.op = "generate_batch" /\ last.parallel /\ last.raised = "" =>
        /\ Len(last.rets) = Len(last.requests)
        /\ \A i \in DOMAIN last.rets :
              /\ last.rets[i] # None
              /\ AnswersEntry(heap[last.rets[i]], last.requests[i], i)

\* the last n elements of s
LastN(s, n) == IF Len(s) <= n THEN s ELSE SubSeq(s, Len(s) - n + 1, Len(s))

\* C4: the history never holds more than 1000 entries, and it is always
\* the 1000 most recent of the entries appended, in append order.
C4_HistoryBound ==
    /\ Len(history) <= 1000
    /\ history = LastN(appended, 1000)

\* C4 witness: more than 1000 attempts have been made, the last ones by the
\* workers of a parallel batch
C4_Witness ==
    /\ Len(appended) > 1001
    /\ Len(history) = 1000
    /\ last.op = "generate_batch" /\ last.parallel
    /\ history[1000].template_used = "meta_description"

\* C11: a generate call that gets as far as the client (its inputs are
\* valid, the result cache did not answer, there is an API manager) invokes
\* the client once when the first invocation succeeds, twice when the first
\* fails and retry_on_failure is true, once when retry_on_failure is false;
\* it succeeds exactly when one of these invocations succeeded.
C11_RetryCount ==
    GenerateReturned =>
        /\ last.path \in {"success", "api_failure"} <=> Len(last.calls) = 1
        /\ last.path \notin {"success", "api_failure"} => last.calls = <<>>
        /\ Len(last.calls) = 1 =>
              LET tried == last.calls[1].tried
              IN /\ Len(tried) >= 1
                 /\ tried[1].success => Len(tried) = 1
                 /\ ~tried[1].success /\ last.req.retry_on_failure => Len(tried) = 2
                 /\ ~last.req.retry_on_failure => Len(tried) = 1
                 /\ LastRecord.success <=> \E k \in DOMAIN tried : tried[k].success

\* C11 witness: the first invocation failed on an authentication error, the
\* retry succeeded, and so did the generation
C11_Witness ==
    /\ GenerateReturned /\ last.req.retry_on_failure
    /\ Len(last.calls) = 1
    /\ Len(last.calls[1].tried) = 2
    /\ ~last.calls[1].tried[1].success /\ last.calls[1].tried[1].net = 1
    /\ last.calls[1].tried[2].success
    /\ LastRecord.success

\* the request fails input validation, names no registered template, or
\* does not render
InputRejected(req) ==
    \/ ~validate_input(req.template_name, req.variables.items).is_valid
    \/ req.template_name \notin DOMAIN templates
    \/ TemplateGenerate(templates[req.template_name], req.variables.items, TRUE).raised # ""

\* C12: a generate call whose input fails validation, whose template is not
\* found or whose rendering fails makes no client invocation and no network
\* request, neither looks up nor writes the result cache, and returns a
\* failed record.
C12_InputErrorsStayLocal ==
    [][(last'.op = "generate" /\ last'.raised = "" /\ InputRejected(last'.req)) =>
          /\ last'.path \in {"validation", "not_found", "render", "unexpected"}
          /\ last'.calls = <<>> /\ last'.client_calls = 0 /\ last'.net = 0
          /\ client' = client /\ netCalls' = netCalls
          /\ cache' = cache /\ cacheStats' = cacheStats
          /\ ~heap'[last'.rets[1]].success
          /\ Has(heap'[last'.rets[1]], "error")]_vars

\* C12 witness: a request with a value the template sanitizer rejects has
\* returned a failed record while the result cache held an entry
C12_Witness ==
    /\ GenerateReturned /\ InputRejected(last.req)
    /\ Has(last.req.variables.items, "topic")
    /\ last.req.variables.items.topic = "javascript:alert(1)"
    /\ ~LastRecord.success
    /\ cache # <<>> /\ netCalls >= 1

\* the most recent operation was a client call that went to the network
ClientWentOut == last.op = "generate_content" /\ last.net > 0

\* C13: one generate_content call makes at most 3 requests; request k+1 is
\* made only after request k failed with a rate-limit or connection error;
\* a success ends the call at once, and an authentication failure, a
\* server error, a timeout or any other error ends it after that one
\* request with that error's own kind.
C13_ClientRetries ==
    /\ last.op = "generate_content" => last.net \in 0..3
    /\ ClientWentOut =>
          LET n == last.net
              kind == last.asked[n].kind
          IN /\ \A k \in 1..(n - 1) :
                   last.asked[k].kind \in {"RateLimitError", "APIConnectionError"}
             /\ kind = "ok" <=> last.response.success
             /\ last.caught =
                   CASE kind = "ok" -> ""
                     [] kind = "AuthenticationError" -> "APIKeyInvalidError"
                     [] kind = "OpenAIAPIError" -> "APIServerError"
                     [] kind \in {"timeout", "APITimeoutError"} -> "RequestTimeoutError"
                     [] kind = "RateLimitError" -> "RateLimitExceeded"
                     [] kind = "APIConnectionError" -> "APIConnectionFailed"
                     [] OTHER -> "Exception"

C15_CacheBound ==
    /\ Len(cache) <= 100
    /\ \A i, j \in DOMAIN cache : cache[i].key = cache[j].key => i = j

\* C15 witness: the cache is full after more than 100 different keys were
\* set, and the last set evicted the least recently used entry
C15_Witness ==
    /\ Len(cache) = 100
    /\ nextId > 101
    /\ last.op = "cache_set" /\ last.removed = 1
    /\ LRUIndex(cache, 1) = 0

\* the calls of _call_api_with_retry made for the record r
CallsFor(r) == {c \in Range(last.calls) : c.request_id = r.request_id}

\* C16: generate_multiple_variations with count=n returns n records, none
\* served from a cache: each has cached=false, no client invocation made
\* for a variation is answered by the client's response cache, and each
\* successful variation has caused a network request of its own.
C16_VariationsUncached ==
    last.op = "generate_multiple_variations" /\ last.raised = "" =>
        /\ Len(last.rets) = last.count
        /\ \A i \in DOMAIN last.rets : ~heap[last.rets[i]].cached
        /\ \A c \in Range(last.calls) : \A k \in DOMAIN c.tried : c.tried[k].net >= 1
        /\ \A i \in DOMAIN last.rets :
              heap[last.rets[i]].success =>
                 \E c \in CallsFor(heap[last.rets[i]]) :
                    \E k \in DOMAIN c.tried : c.tried[k].success /\ c.tried[k].net >= 1

\* the temperature of the variation at 1-based index j, in hundredths
ExpectedTemperature(lo, hi, j, count) ==
    IF count > 1 THEN lo + ((hi - lo) * (j - 1)) \div (count - 1)
    ELSE (lo + hi) \div 2

\* C17: with a temperature range (lo, hi), the variation at 0-based index i
\* is tagged with temperature lo + (hi - lo) * i / (count - 1), or with
\* (lo + hi) / 2 when count is 1, and with variation number i + 1; the
\* requests sent to the provider for it carry that temperature.
C17_VariationTemperatures ==
    (/\ last.op = "generate_multiple_variations" /\ last.raised = ""
     /\ last.temperature_range # <<>>) =>
        \A j \in DOMAIN last.rets :
           LET r == heap[last.rets[j]]
               expected == ExpectedTemperature(last.temperature_range[1],
                                               last.temperature_range[2], j, last.count)
           IN /\ r.variation_number = j
              /\ r.variation_temperature = expected
              /\ \A c \in CallsFor(r) : \A k \in DOMAIN c.tried :
                    c.tried[k].net >= 1 => c.tried[k].sent.temperature = expected

\* entry req of a batch is not a dictionary or has no template_name
Malformed(req) ==
    ~req.is_dict \/ ~Has(req.body, "template_name") \/ req.body.template_name = ""

\* C18: in a generate_batch that returns, sequential or parallel, a
\* malformed entry gets a failed record at its own index, naming that
\* index, for which the client is not invoked: only well-formed entries
\* lead to client calls; and every well-formed entry with a mapping for
\* its variables gets its record at its index all the same.
C18_MalformedEntries ==
    last.op = "generate_batch" /\ last.raised = "" =>
        /\ Len(last.rets) = Len(last.requests)
        /\ \A i \in DOMAIN last.requests :
              Malformed(last.requests[i]) =>
                 /\ last.rets[i] # None
                 /\ ~heap[last.rets[i]].success
                 /\ heap[last.rets[i]].error[1] = "Request "
                 /\ heap[last.rets[i]].error[2] = ToString(i - 1)
                 /\ CallsFor(heap[last.rets[i]]) = {}
        /\ Len(last.calls) <=
              Cardinality({i \in DOMAIN last.requests : ~Malformed(last.requests[i])})
        /\ \A i \in DOMAIN last.requests :
              (/\ ~Malformed(last.requests[i])
               /\ Has(last.requests[i].body, "variables") =>
                     last.requests[i].body.variables.mapping) =>
                 /\ last.rets[i] # None
                 /\ AnswersEntry(heap[last.rets[i]], last.requests[i], i)

\* C18 witness: a parallel batch of an entry without template_name and a
\* valid entry returned a failed record first and a generated one second,
\* after one client call
C18_Witness ==
    /\ last.op = "generate_batch" /\ last.parallel /\ hasManager
    /\ Len(last.requests) = 2
    /\ last.requests[1].is_dict /\ Malformed(last.requests[1])
    /\ ~Malformed(last.requests[2])
    /\ last.rets[1] # None /\ last.rets[2] # None
    /\ ~heap[last.rets[1]].success
    /\ heap[last.rets[2]].success
    /\ Len(last.calls) = 1

\* the required variables of the request's template that the request omits
Omitted(req) ==
    SelectSeq(templates[req.template_name].required_variables,
              LAMBDA v : v \notin DOMAIN req.variables.items)

\* C19: a generate call whose variables pass validation but omit required
\* variables of the template returns success=false with an error that
\* lists exactly the omitted required variables, in declaration order, and
\* makes no client call and no network request.
C19_MissingVariablesNamed ==
    (/\ GenerateReturned
     /\ validate_input(last.req.template_name, last.req.variables.items).is_valid
     /\ last.req.template_name \in DOMAIN templates
     /\ Omitted(last.req) # <<>>) =>
        /\ ~LastRecord.success
        /\ LastRecord.error =
              <<"Variable validation failed: ", "Missing required variables for template '",
                last.req.template_name, "': ">> \o Omitted(last.req)
        /\ last.calls = <<>> /\ last.net = 0 /\ last.client_calls = 0

\* C19 witness: product_description with only product_name supplied is
\* refused with the list features, audience
C19_Witness ==
    /\ GenerateReturned
    /\ last.req.template_name = "product_description"
    /\ DOMAIN last.req.variables.items = {"product_name"}
    /\ ~LastRecord.success
    /\ SubSeq(LastRecord.error, 5, Len(LastRecord.error)) = <<"features", "audience">>

\* an estimate request that cannot be priced: no such template, variables
\* that are not a mapping, a required variable absent or blank, or a value
\* the sanitizer refuses
CannotBePriced(req) ==
    \/ req.template_name \notin DOMAIN BuiltinTemplates
    \/ ~req.variables.mapping
    \/ \E i \in DOMAIN BuiltinTemplates[req.template_name].required_variables :
          LET v == BuiltinTemplates[req.template_name].required_variables[i]
          IN \/ ~Has(req.variables.items, v)
             \/ IsBlank(req.variables.items[v])
    \/ \E k \in DOMAIN req.variables.items :
          \/ StrLen(req.variables.items[k]) > MAX_VARIABLE_LENGTH
          \/ MatchesDangerous(req.variables.items[k])

\* C20: estimate_cost of the orchestrator and of the client send no request
\* to the provider and leave the history, the result cache with its hit and
\* miss counters, the client's response cache and the client's usage
\* statistics as they were; the orchestrator's estimate_cost never raises,
\* and a request that cannot be priced gives a record with success=false.
C20_EstimateLeavesState ==
    [][last'.op \in {"estimate_cost", "client_estimate_cost"} =>
          /\ netCalls' = netCalls /\ last'.net = 0
          /\ history' = history
          /\ cache' = cache /\ cacheStats' = cacheStats
          /\ client'.cache = client.cache
          /\ client'.stats = client.stats
          /\ last'.op = "estimate_cost" =>
                /\ last'.raised = ""
                /\ last'.estimate.success <=> ~CannotBePriced(last'.req)
                /\ ~last'.estimate.success => last'.estimate.error # <<>>]_vars

\* C20 witness: the orchestrator was asked the cost of a request naming an
\* unknown template, and answered with a failed record, while the history,
\* both caches and the usage statistics held a generation
C20_Witness ==
    /\ last.op = "estimate_cost" /\ last.req.template_name = "weekly_digest"
    /\ ~last.estimate.success
    /\ hasManager
    /\ history # <<>> /\ cache # <<>>
    /\ DOMAIN client.cache # {}
    /\ client.stats.total_requests > 0

\* C21: remove_template(name) returns true exactly when name was
\* registered; afterwards name is not registered, get_template(name) fails
\* with TemplateNotFoundError, name is not active and the lookup cache holds
\* nothing for it; the other templates and their activity are as before; a
\* removal of a name that is not registered changes nothing, so a second
\* removal returns false.
C21_RemoveIdempotent ==
    [][last'.op = "remove_template" =>
          LET name == last'.req.name
              again == RemoveTemplate(templates', engine', name)
          IN /\ last'.answer.removed <=> name \in DOMAIN templates
             /\ name \notin DOMAIN templates'
             /\ GetTemplate(templates', engine', name).raised = "TemplateNotFoundError"
             /\ name \notin engine'.active
             /\ name \notin DOMAIN engine'.cached
             /\ DOMAIN templates' = DOMAIN templates \ {name}
             /\ \A n \in DOMAIN templates' : templates'[n] = templates[n]
             /\ engine'.active = engine.active \ {name}
             /\ name \notin DOMAIN templates => templates' = templates /\ engine' = engine
             /\ ~again.removed
             /\ again.templates = templates' /\ again.engine = engine']_vars

\* C21 witness: a registered, active template whose lookup was cached has
\* been removed while another template stays registered
C21_Witness ==
    /\ last.op = "remove_template" /\ last.req.name = "meta_description"
    /\ last.answer.removed /\ last.answer.was_cached /\ last.answer.was_active
    /\ "product_description" \in DOMAIN templates

\* C22: clone_template(name, new_name, updates) raises and leaves the store
\* as it was when new_name is registered or name is not; otherwise new_name
\* is registered afterwards with every field of the source except the name
\* and the updated fields, which have the updates' values; the source is
\* unchanged, and get_template(new_name) returns the clone with its updates.
C22_CloneRegisters ==
    [][last'.op = "clone_template" =>
          LET name == last'.req.name
              new_name == last'.req.new_name
              updates == last'.req.updates
              got == GetTemplate(templates', engine', new_name)
          IN IF new_name \in DOMAIN templates \/ name \notin DOMAIN templates
             THEN /\ last'.raised # ""
                  /\ templates' = templates /\ engine' = engine
             ELSE /\ last'.raised = ""
                  /\ new_name \in DOMAIN templates'
                  /\ templates'[new_name].name = new_name
                  /\ \A k \in DOMAIN templates[name] \ ({"name"} \cup DOMAIN updates) :
                        templates'[new_name][k] = templates[name][k]
                  /\ \A k \in DOMAIN updates \cap DOMAIN templates[name] :
                        templates'[new_name][k] = updates[k]
                  /\ templates'[name] = templates[name]
                  /\ got.raised = "" /\ got.tpl = templates'[new_name]]_vars

\* the constraints on a registered template: a name of letters, digits and
\* underscores, a body of 1 to 10,000 characters, a temperature in [0, 2]
\* and max_tokens of at least 1
MeetsConstraints(t) ==
    /\ t.name # "" /\ MatchesNamePattern(t.name)
    /\ BodyLength(t.template) >= 1 /\ BodyLength(t.template) <= 10000
    /\ 0 <= t.temperature_recommendation /\ t.temperature_recommendation <= 200
    /\ t.max_tokens_recommendation >= 1

\* C23: a template is accepted for registration only if it meets the
\* constraints; a rejected one raises a validation error and leaves the
\* store unchanged, an accepted one is stored under its name, and every
\* template in the store meets the constraints, also after a clone with
\* updates.
C23_StoreHoldsValidTemplates ==
    [][/\ last'.op = "register_template" =>
             IF last'.raised = ""
             THEN /\ MeetsConstraints(last'.req)
                  /\ last'.req.name \in DOMAIN templates'
                  /\ templates'[last'.req.name] = last'.req
                  /\ \A n \in DOMAIN templates \ {last'.req.name} :
                        n \in DOMAIN templates' /\ templates'[n] = templates[n]
             ELSE /\ last'.raised = "TemplateValidationError"
                  /\ templates' = templates /\ engine' = engine
       /\ \A n \in DOMAIN templates' : MeetsConstraints(templates'[n])]_vars

\* the cache key that generate computes for a request
KeyOf(req) == GenerateCacheKey(req.template_name, req.variables.items)

\* the model a request asks for
RequestedModel(req) ==
    IF Has(req.api_overrides, "model") THEN req.api_overrides.model ELSE DEFAULT_MODEL

SameFingerprint(r1, r2) ==
    /\ r1.template_name = r2.template_name
    /\ r1.variables.items = r2.variables.items
    /\ RequestedModel(r1) = RequestedModel(r2)

\* C24: two requests have the same result cache key exactly when they have
\* the same template name, the same variables and the same model; so a
\* generate call answered from the result cache gets a record that was
\* generated for its template, its variables and its model.
C24_CacheKeyFingerprint ==
    [][last'.op = "generate" =>
          /\ \A other \in OverrideRequests :
                KeyOf(last'.req) = KeyOf(other) <=> SameFingerprint(last'.req, other)
          /\ last'.path = "hit" =>
                LET served == heap'[last'.rets[1]]
                IN /\ served.template_used = last'.req.template_name
                   /\ served.variables = last'.req.variables.items
                   /\ served.model = RequestedModel(last'.req)]_vars

\* C29: every request that a generate call sends to the provider carries
\* the temperature and the max_tokens of the caller's override when one is
\* given, and the recommendation of the template otherwise.
C29_OverridesReachProvider ==
    [][last'.op = "generate" /\ last'.calls # <<>> =>
          LET req == last'.req
              tpl == templates[req.template_name]
              temperature == IF Has(req.api_overrides, "temperature")
                             THEN req.api_overrides.temperature
                             ELSE tpl.temperature_recommendation
              max_tokens == IF Has(req.api_overrides, "max_tokens")
                            THEN req.api_overrides.max_tokens
                            ELSE tpl.max_tokens_recommendation
          IN \A c \in DOMAIN last'.calls :
                \A k \in DOMAIN last'.calls[c].tried :
                   last'.calls[c].tried[k].net > 0 =>
                      /\ last'.calls[c].tried[k].sent.temperature = temperature
                      /\ last'.calls[c].tried[k].sent.max_tokens = max_tokens]_vars

\* C25: validate_api_key keeps its classification of the key for an hour.
\* Once the key has been classified, a call without force_check less than
\* an hour after the classification returns the kept value and makes no
\* remote call; a forced call, a call with no classification yet and a call
\* more than an hour after it make exactly one remote call; of those, a
\* success classifies the key as valid, an authentication failure as
\* invalid, and any other failure returns false and leaves the
\* classification and its time as they were.
C25_KeyValidationCached ==
    [][last'.op = "validate_api_key" =>
          LET classified == client.api_key_valid # <<>>
              age == now - client.api_key_validated_at[1]
              kept == ~last'.req.force_check /\ classified
                         /\ age < API_KEY_VALIDATION_CACHE_TTL
              checks == last'.req.force_check \/ ~classified
                           \/ age > API_KEY_VALIDATION_CACHE_TTL
              outcome == last'.asked[1]
          IN /\ last'.net \in {0, 1}
             /\ kept => /\ last'.net = 0
                        /\ last'.answer.ret = client.api_key_valid[1]
                        /\ client' = client
             /\ checks => last'.net = 1
             /\ last'.net = 1 =>
                   CASE outcome = "ok" ->
                           /\ last'.answer.ret
                           /\ client'.api_key_valid = <<TRUE>>
                           /\ client'.api_key_validated_at = <<now>>
                     [] outcome = "AuthenticationError" ->
                           /\ ~last'.answer.ret
                           /\ client'.api_key_valid = <<FALSE>>
                           /\ client'.api_key_validated_at = <<now>>
                     [] OTHER ->
                           /\ ~last'.answer.ret
                           /\ client'.api_key_valid = client.api_key_valid
                           /\ client'.api_key_validated_at = client.api_key_validated_at]_vars

\* C25 witness: half an hour after the key was classified as invalid, an
\* unforced check answered false without a remote call
C25_Witness ==
    /\ last.op = "validate_api_key" /\ ~last.req.force_check
    /\ last.net = 0 /\ ~last.answer.ret
    /\ client.api_key_valid = <<FALSE>>
    /\ now = client.api_key_validated_at[1] + KeyTickSeconds

\* the keys of the result cache in the order in which set would evict them
EvictionOrder(c) == [i \in DOMAIN c |-> c[i].key]

Without(s, k) == SelectSeq(s, LAMBDA x : x # k)

\* C26: the result cache evicts in the order of last use.  A set of a new
\* key into a full cache evicts exactly the key whose last set or successful
\* get is the oldest; a set of a key already held evicts nothing; either
\* way the key set becomes the most recently used and the other keys keep
\* their order.  A successful get makes its key the most recently used; a
\* get that misses moves no other key.  So the eviction order is always the
\* order of last use.
C26_EvictsLeastRecentlyUsed ==
    [][/\ last'.op = "cache_set" =>
             LET key == last'.req.key
                 before == EvictionOrder(cache)
                 after == EvictionOrder(cache')
                 gone == Range(before) \ Range(after)
             IN /\ after[Len(after)] = key
                /\ IF key \in Range(before)
                   THEN gone = {} /\ Without(after, key) = Without(before, key)
                   ELSE IF Len(cache) >= MAX_CACHE_SIZE
                   THEN gone = {recency[1]}
                           /\ Without(after, key) = Without(before, recency[1])
                   ELSE gone = {} /\ Without(after, key) = before
       /\ last'.op = "cache_get" =>
             LET key == last'.req.key
                 before == EvictionOrder(cache)
                 after == EvictionOrder(cache')
             IN /\ last'.rets[1] # None => after = Append(Without(before, key), key)
                /\ last'.rets[1] = None => after = Without(before, key)
       /\ last'.op \in {"cache_set", "cache_get"} => EvictionOrder(cache') = recency']_vars

\* C26 witness: a set into the full cache has evicted a key, and the key
\* that was set first is still held, because a later get or set of it
\* succeeded, while the key set second is gone
C26_Witness ==
    /\ last.op = "cache_set" /\ last.removed = 1
    /\ Len(cache) = MAX_CACHE_SIZE
    /\ LRUIndex(cache, 1) # 0 /\ LRUIndex(cache, 2) = 0
    /\ cacheStats.hits >= 1

\* C27: get(key) returns the payload stored for key exactly when key is
\* held and the time is not past the entry's creation time plus the TTL;
\* a get of an entry past that time removes the entry; every get adds one
\* to exactly one of the hit counter (payload returned) and the miss
\* counter (None returned); hit_rate is 100 * hits / (hits + misses), and
\* 0 before any get.
C27_GetHonoursTTL ==
    [][last'.op = "cache_get" =>
          LET key == last'.req.key
              held == \E i \in DOMAIN cache : cache[i].key = key
              entry == cache[CHOOSE i \in DOMAIN cache : cache[i].key = key]
              live == held /\ now <= entry.created_at + CACHE_TTL_SECONDS
              total == cacheStats'.hits + cacheStats'.misses
          IN /\ last'.rets[1] = IF live THEN entry.data ELSE None
             /\ live => entry.data # None
             /\ cacheStats' = IF live THEN [cacheStats EXCEPT !.hits = @ + 1]
                              ELSE [cacheStats EXCEPT !.misses = @ + 1]
             /\ held /\ ~live =>
                   /\ \A i \in DOMAIN cache' : cache'[i].key # key
                   /\ Len(cache') = Len(cache) - 1
             /\ ~held => cache' = cache
             /\ Len(cache') = Len(cache) - last'.removed
             /\ HitRate(cacheStats').num * total = 100 * cacheStats'.hits * HitRate(cacheStats').den
             /\ HitRate([hits |-> 0, misses |-> 0]).num = 0]_vars

\* C27 witness: after a get that hit, a get of an entry past its TTL has
\* removed the entry and counted a miss
C27_Witness ==
    /\ last.op = "cache_get" /\ last.removed = 1 /\ last.rets = <<None>>
    /\ cacheStats.hits >= 1 /\ cacheStats.misses >= 1

\* every payload held by the result cache and by the client's response
\* cache is that of a success
PayloadsSucceeded ==
    /\ \A i \in DOMAIN cache : heap[cache[i].data].success
    /\ \A k \in DOMAIN client.cache : client.cache[k].response.success

\* the step is a generate call that returns a failed record
FailedGenerate == last'.op = "generate" /\ last'.raised = "" /\ ~heap'[last'.rets[1]].success

\* C28 (as the code has it): a failed generation adds nothing to a cache.
\* After a generate call that returns success=false the result cache holds
\* the entries it held before, in the same order, except that the lookup of
\* a call with use_cache=true has removed the entry of the request's key
\* when that entry was past its TTL; the client's response cache has gained
\* no key; and in every reachable state every payload held by the result
\* cache and by the client's response cache has success=true.
C28_FailedGenerationAddsNothing ==
    /\ []PayloadsSucceeded
    /\ [][FailedGenerate =>
             /\ \/ cache' = cache
                \/ /\ last'.req.use_cache
                   /\ \E i \in DOMAIN cache :
                         /\ now > cache[i].created_at + CACHE_TTL_SECONDS
                         /\ cache' = RemoveAt(cache, i)
             /\ DOMAIN client'.cache \subseteq DOMAIN client.cache]_vars

\* C28 witness: every attempt of a generate call has failed at the provider
\* while the result cache and the client's cache each held a payload
C28_Witness ==
    /\ GenerateReturned /\ ~LastRecord.success
    /\ last.path = "api_failure" /\ last.net >= 1
    /\ cache # <<>> /\ DOMAIN client.cache # {}

\* C28 as stated: after a generate call that returns success=false the
\* result cache is unchanged, and every payload held by either cache has
\* success=true
C28_AsStated ==
    /\ []PayloadsSucceeded
    /\ [][FailedGenerate => cache' = cache]_vars

\* the calls of generate_content that have completed by going to the
\* provider: not answered from the response cache, no InvalidPromptError
WentToProvider ==
    {i \in DOMAIN threads : threads[i].pc = "done" /\ threads[i].served = "network"}

\* the calls whose _update_stats has run
Counted == {i \in DOMAIN threads : threads[i].served = "network"}

RECURSIVE SumOver(_, _)
\* the sum of field k of tokens_used, or of the cost when k is "cost", over
\* the responses of the calls in I
SumOver(I, k) ==
    IF I = {} THEN 0
    ELSE LET i == CHOOSE j \in I : TRUE
             r == threads[i].response
         IN (IF k = "cost" THEN r.cost ELSE r.tokens_used[k]) + SumOver(I \ {i}, k)

\* C30: the usage statistics of the client are consistent under every
\* interleaving of generate_content calls.  At every moment total_requests
\* = successful_requests + failed_requests = the number of calls whose
\* statistics update has run, and the token and cost totals are the sums
\* over the successful ones among them; once every call has completed, that
\* number is the number of calls that were not answered from the response
\* cache and did not raise InvalidPromptError.  No update is lost.
C30_StatsConsistent ==
    LET s == client.stats
        good == {i \in Counted : threads[i].response.success}
    IN /\ s.total_requests = s.successful_requests + s.failed_requests
       /\ s.total_requests = Cardinality(Counted)
       /\ s.successful_requests = Cardinality(good)
       /\ s.total_prompt_tokens = SumOver(good, "prompt")
       /\ s.total_completion_tokens = SumOver(good, "completion")
       /\ s.total_tokens = SumOver(good, "total")
       /\ s.total_cost = SumOver(good, "cost")
       /\ (\A i \in DOMAIN threads : threads[i].pc \in {"done", "raised"}) =>
             /\ Counted = WentToProvider
             /\ Counted = {i \in DOMAIN threads :
                              threads[i].served \notin {"cache", "invalid"}}

\* C30 witness: three calls ran at once and all have completed: one was
\* answered by the provider after a retry, one failed, and one was answered
\* from the response cache, after another call had already started
C30_Witness ==
    /\ Len(threads) = MaxClientThreads
    /\ \A i \in DOMAIN threads : threads[i].pc = "done"
    /\ \E i, j, k \in DOMAIN threads :
          /\ threads[i].served = "network" /\ threads[i].response.success
          /\ threads[j].served = "network" /\ ~threads[j].response.success
          /\ threads[k].served = "cache" /\ threads[k].request_id < MaxClientThreads
    /\ client.stats.total_requests = 2

\* C31: a generate_content call with use_cache=true whose prompt, system
\* message and model are those of an earlier successful call still held by
\* the response cache and not past its TTL returns the cached content under
\* a new request id, sends no request and leaves the usage statistics as
\* they were.  When the entry is past its TTL it is dropped and the call
\* goes to the provider.
C31_ClientCacheHit ==
    [][(/\ last'.op = "generate_content"
        /\ last'.req.use_cache
        /\ ~BlankPrompt(last'.prompt)) =>
          LET key == ClientKey(last'.prompt, last'.req.system_message, client.model)
              held == key \in DOMAIN client.cache
              entry == client.cache[key]
              live == held /\ now <= entry.created_at + CLIENT_CACHE_TTL_SECONDS
          IN /\ live =>
                   /\ last'.raised = "" /\ last'.net = 0 /\ netCalls' = netCalls
                   /\ last'.response.success
                   /\ last'.response.content = entry.response.content
                   /\ last'.response.request_id # entry.response.request_id
                   /\ last'.response.request_id = client.request_counter + 1
                   /\ client'.stats = client.stats
             /\ held /\ ~live =>
                   /\ last'.net >= 1
                   /\ client'.stats.total_requests = client.stats.total_requests + 1
                   /\ \/ key \notin DOMAIN client'.cache
                      \/ client'.cache[key].created_at = now
             /\ ~held => last'.net >= 1]_vars

\* C31 witness: the second call, made at the very end of the TTL of the
\* first call's answer, was served from the response cache
C31_Witness ==
    /\ last.op = "generate_content" /\ last.req # <<>> /\ last.req.use_cache
    /\ last.raised = "" /\ last.net = 0 /\ last.response.success
    /\ last.response.request_id = 2
    /\ now = CLIENT_CACHE_TTL_SECONDS
    /\ client.stats.total_requests = 1

\* the generate calls that have started and not ended
InFlight ==
    {i \in DOMAIN threads :
        threads[i].pc \notin {"queued", "waiting", "abandoned", "done", "raised"}}

\* C32: in the parallel mode of the orchestrator's generate_batch and of the
\* client's generate_batch, at no moment are more than 3 generate calls of
\* the batch in flight, whatever the size of the batch.
C32_PoolBound == Cardinality(InFlight) <= 3

\* C32 witness: a client batch of more than 3 prompts has 3 calls in flight
\* and a prompt still waiting for the semaphore
C32_Witness ==
    /\ ~batch.active
    /\ Len(threads) > 3
    /\ Cardinality(InFlight) = 3
    /\ \E i \in DOMAIN threads : threads[i].pc = "waiting"

\* thread i has completed its operation
Completed(i) == threads[i].pos > Len(threads[i].path)

\* C33: no thread holds the locks of two components at the same time, and
\* every operation that a thread has started completes: no deadlock.
C33_OneLockAtATime ==
    /\ [](\A i \in DOMAIN threads : Cardinality(HeldBy(i)) <= 1)
    /\ \A i \in 1..MaxLockThreads :
          (i \in DOMAIN threads) ~> (i \in DOMAIN threads /\ Completed(i))

\* C33 witness: a thread is inside the cache's lock at the end of a generate
\* while another thread, in get_statistics, waits for or holds the
\* orchestrator's lock, which the first thread takes next
C33_Witness ==
    /\ Len(threads) = 2
    /\ \E i, j \in DOMAIN threads :
          /\ threads[i].op = "generate" /\ HeldBy(i) = {"result_cache"}
          /\ threads[i].pos > Len(LookupPath \o CacheGetPath \o ClientPath)
          /\ threads[j].op = "get_statistics" /\ HeldBy(j) = {"orchestrator"}

====
